---- MODULE Spec2Model ----
(***************************************************************************)
(* Verification model of the FMP ("Full Metal Planet") core:               *)
(*   - src/src/tides.py        TideDeck (draw / discard / reshuffle)       *)
(*   - src/src/player.py       Player action-point ledger                  *)
(*   - src/src/board.py        offset/axial coordinates, neighbours,       *)
(*                             effective terrain                           *)
(*   - src/src/b_01.py         cube/axial conversion                       *)
(*   - src/src/utils/pathfinding.py   A* search                            *)
(*   - src/src/commands.py     MoveCommand                                 *)
(* Each subsystem has its own specification over the shared variables:     *)
(* SpecTide, SpecPlayer, SpecGeom, SpecAStar, SpecMove.                    *)
(***************************************************************************)
EXTENDS Integers, Sequences, FiniteSets, TLC

(***************************************************************************)
(* Bounds of the model.                                                    *)
(***************************************************************************)
NumCards == 3         \* largest number of tide card definitions
MaxTurn == 7          \* advance_turn_tide is called for turns 1..MaxTurn
MaxReshuffles == 2    \* largest size of the reshuffle trigger set
MaxSetupTurn == 3     \* latest configured setup_deck_turn
MaxFixedTurn == 3     \* latest turn a configuration lists in fixed_turns
MaxBaseAP == 12       \* largest base AP of a turn definition
MaxCost == 13         \* largest cost handed to spend_ap
CoordRadius == 3      \* coordinate arguments range over -CoordRadius..CoordRadius
BoardRadius == 2      \* the query board covers -BoardRadius..BoardRadius
AStarCols == 3        \* columns of the search boards
AStarRows == 4        \* rows of the search boards
MaxCols == 5          \* widest board a MoveCommand is run on
MaxRows == 5          \* tallest board a MoveCommand is run on
CmdCols == 3          \* columns of the board the command life cycle runs on
CmdRows == 2          \* rows of the board the command life cycle runs on
EffectCols == 2       \* columns of the board tide effects are applied on
EffectRows == 2       \* rows of the board tide effects are applied on
MaxAvailableAP == 1   \* largest AP amount handed to can_execute
MaxTurnNumber == 4    \* largest turn number a turn definition is registered for
CacheCols == 2        \* columns of the two-row board the path cache is run on

VARIABLES
    \* ---- TideDeck (tides.py) ----
    all_cards_definitions,   \* sequence of card ids
    future_deck_size,        \* setup_rules['future_deck_size']
    reshuffle_turns,         \* reshuffle_rules['turns']
    setup_deck_turn,         \* setup_rules['setup_deck_turn']
    last_fixed_turn,         \* setup_rules['last_fixed_turn']
    fixed_turns,             \* fixed_turns: turn number -> tide type
    future_deck,             \* sequence of card ids, head = next draw
    reserve_pile,
    discard_pile,
    current_tide_card,       \* a card id or NoCard
    tide_turn,               \* turn number of the last advance_turn_tide call
    \* ---- Player (player.py) ----
    current_turn_base_ap,
    action_points_spent_this_turn,
    action_points_banked,
    banked_ap_at_start_of_actions,
    total_ap_for_spending_this_turn,
    player_op,               \* last ledger call: <<name, argument, result>>
    \* ---- history of the turn cycles of the player (game_engine.py) ----
    turn_cycles,             \* prepare_for_new_turn calls of the cycles so far
    cumulative_base_ap,      \* sum of the base AP granted by them
    cumulative_spent_ap,     \* sum of the costs spend_ap accepted
    \* ---- Board / GameState (board.py, game_state.py) ----
    hexes,                   \* Board.hexes: <<col, row>> -> stored terrain
    tide_state,              \* GameState.tide_state
    can_enter,               \* UnitType.can_enter of the unit concerned
    unit_pos,                \* <<unit.col, unit.row>> of the unit "u1"
    \* ---- MoveCommand (commands.py) ----
    cmd_dest,                \* <<dest_col, dest_row>>
    cached_path,             \* _cached_path
    cached_path_state_tuple, \* _cached_path_state_tuple
    available_ap,            \* available_ap of the last can_execute call
    cmd_unit_id,             \* unit_id of the command
    \* ---- GameState.units_by_id (game_state.py, units.py) ----
    units_by_id,             \* unit id -> Unit record
    \* ---- TurnManager / GameEngine (turn_manager.py, game_engine.py) ----
    turn_definitions,        \* turn number -> action points of its definition
    current_turn_number,
    game_over,
    turn_steps,              \* the calls _play_game_turn made, in order
    \* ---- freighter landing of turn 1 (game_engine.py, board.py) ----
    hex_zone,                \* Hex.zone_id of every hex, "None" for no zone
    hex_ore,                 \* Hex.ore of every hex
    pod_shapes,              \* pod_angles of the starfreighter's pod shapes
    players,                 \* ids of GameEngine.players, in order
    landing_index,           \* players the landing loop is done with
    freighter_landings,      \* player id -> landing record
    landed_freighter_zones,
    freighter_landed,        \* ids of the players with freighter_landed set
    landing_log,             \* <<player, outcome>> of the last loop pass
    \* ---- unit deployment of turn 2 (game_engine.py, player.py) ----
    deployment_index,        \* players the deployment loop is done with
    units_on_board,          \* player id -> Player.units_on_board
    units_in_freighter,      \* player id -> Player.units_in_freighter
    \* ---- a call of a query function and what it returned ----
    arg_a,                   \* first coordinate argument (hex, start)
    arg_b,                   \* second argument (goal, pod entries)
    call,                    \* name of the function called last
    ret,                     \* its return value
    raised                   \* the exception it raised instead of returning

tideVars == <<all_cards_definitions, future_deck_size, reshuffle_turns,
              setup_deck_turn, last_fixed_turn, fixed_turns,
              future_deck, reserve_pile, discard_pile, current_tide_card,
              tide_turn>>
playerVars == <<current_turn_base_ap, action_points_spent_this_turn,
                action_points_banked, banked_ap_at_start_of_actions,
                total_ap_for_spending_this_turn, player_op,
                turn_cycles, cumulative_base_ap, cumulative_spent_ap>>
historyVars == <<turn_cycles, cumulative_base_ap, cumulative_spent_ap>>
boardVars == <<hexes, tide_state, can_enter>>
moveVars == <<unit_pos, cmd_dest, cached_path, cached_path_state_tuple,
              available_ap, cmd_unit_id>>
callVars == <<arg_a, arg_b, call, ret, raised>>
deployVars == <<deployment_index, units_on_board, units_in_freighter>>
landingVars == <<hex_zone, hex_ore, pod_shapes, players, landing_index,
                 freighter_landings, landed_freighter_zones, freighter_landed,
                 landing_log, deployVars>>
engineVars == <<turn_definitions, current_turn_number, game_over, turn_steps,
                landingVars>>
vars == <<tideVars, playerVars, boardVars, callVars, moveVars, units_by_id,
          engineVars>>

(***************************************************************************)
(* Sequence helpers.                                                       *)
(***************************************************************************)
Range(s) == {s[i] : i \in DOMAIN s}

Min(a, b) == IF a <= b THEN a ELSE b

\* s[:n] and s[n:] of Python, for 0 <= n <= Len(s)
Take(s, n) == SubSeq(s, 1, n)

Drop(s, n) == SubSeq(s, n + 1, Len(s))

NoDup(s) == \A i, j \in DOMAIN s : i # j => s[i] # s[j]

\* mutant: the shuffle may repeat a card and lose another
Shuffles_Repeating(s) == [DOMAIN s -> Range(s)]

\* every ordering random.shuffle can leave the list s in
Shuffles(s) ==
    {p \in [DOMAIN s -> Range(s)] :
        \A i, j \in DOMAIN s : i # j => p[i] # p[j]}

(***************************************************************************)
(* TideDeck.                                                               *)
(***************************************************************************)
NoCard == 0

TideTypes == <<"low", "normal", "high">>

\* the type of card c: the definitions cycle through the three types
CardType(c) == TideTypes[((c - 1) % 3) + 1]

\* the default configuration of tide_data and of the setup_rules.get calls
FixedTurns == [t \in {1, 2} |-> "normal"]

SetupDeckTurn == 3

LastFixedTurn == 2

Deck(f, r, d, c) == [future |-> f, reserve |-> r, discard |-> d, current |-> c]

FindCardByType(defs, type) ==
    IF \E i \in DOMAIN defs : CardType(defs[i]) = type
    THEN defs[CHOOSE i \in DOMAIN defs :
                /\ CardType(defs[i]) = type
                /\ \A j \in DOMAIN defs : CardType(defs[j]) = type => i <= j]
    ELSE NoCard

\* mutant: the discard pile is not cleared
SetupDeckForPlay_KeepDiscard(dk, defs, size, p) ==
    IF defs = <<>> THEN dk
    ELSE LET n == Min(size, Len(p))
         IN  Deck(Take(p, n), Drop(p, n), dk.discard, dk.current)

\* setup_deck_for_play, the shuffle leaving the definitions in order p
SetupDeckForPlay(dk, defs, size, p) ==
    IF defs = <<>> THEN dk
    ELSE LET n == Min(size, Len(p))
         IN  Deck(Take(p, n), Drop(p, n), <<>>, dk.current)

\* mutant: the previous turn's card is dropped instead of discarded
DiscardPrevious_Dropped(dk, turn_number) == dk

\* step 2 of advance_turn_tide: the previous turn's card goes to discard
DiscardPrevious(dk, turn_number) ==
    IF dk.current # NoCard /\ turn_number - 1 > last_fixed_turn
    THEN [dk EXCEPT !.discard = Append(@, dk.current)]
    ELSE dk

\* mutant: a draw from the empty future deck keeps the current card
DrawForTurn_KeepCurrent(dk, defs, turn_number) ==
    IF turn_number \in DOMAIN fixed_turns
    THEN [dk EXCEPT !.current = FindCardByType(defs, fixed_turns[turn_number])]
    ELSE IF dk.future = <<>>
         THEN dk
         ELSE [dk EXCEPT !.current = Head(dk.future), !.future = Tail(@)]

\* get_tide_for_turn followed by the assignment to current_tide_card
DrawForTurn(dk, defs, turn_number) ==
    IF turn_number \in DOMAIN fixed_turns
    THEN [dk EXCEPT !.current = FindCardByType(defs, fixed_turns[turn_number])]
    ELSE IF dk.future = <<>>
         THEN [dk EXCEPT !.current = NoCard]
         ELSE [dk EXCEPT !.current = Head(dk.future), !.future = Tail(@)]

\* mutant: the current card is not excluded from the reshuffle
CardsToShuffle_All(dk, defs) == defs

\* the cards reshuffle() shuffles: every definition but the current card
CardsToShuffle(dk, defs) ==
    SelectSeq(defs, LAMBDA c : c # dk.current)

\* mutant: reshuffle keeps the discard pile
Reshuffle_KeepDiscard(dk, defs, size, p) ==
    IF defs = <<>> THEN dk
    ELSE LET n == Min(size, Len(p))
         IN  Deck(Take(p, n), Drop(p, n), dk.discard, dk.current)

\* reshuffle, the shuffle leaving cards_to_shuffle in order p
Reshuffle(dk, defs, size, p) ==
    IF defs = <<>> THEN dk
    ELSE LET n == Min(size, Len(p))
         IN  Deck(Take(p, n), Drop(p, n), <<>>, dk.current)

\* mutant: no card is moved from reserve to future
RefillFromReserve_Never(dk) == dk

\* the reserve -> future refill that ends step 4
RefillFromReserve(dk) ==
    IF dk.future = <<>> /\ dk.reserve # <<>>
    THEN [dk EXCEPT !.future = Append(@, Head(dk.reserve)),
                    !.reserve = Tail(@)]
    ELSE dk

\* fixed turns 1 and 2, last fixed turn 2, deck set up on turn 3
DefaultTurns ==
    /\ setup_deck_turn = SetupDeckTurn
    /\ last_fixed_turn = LastFixedTurn
    /\ fixed_turns = FixedTurns

TideConfigs ==
    {<<n, size, rs>> \in (0..NumCards) \X (0..(NumCards + 1)) \X (SUBSET (1..MaxTurn)) :
        Cardinality(rs) <= MaxReshuffles}

TideInit ==
    /\ \E cfg \in TideConfigs :
          /\ all_cards_definitions = [i \in 1..cfg[1] |-> i]
          /\ future_deck_size = cfg[2]
          /\ reshuffle_turns = cfg[3]
    /\ DefaultTurns
    /\ future_deck = <<>>
    /\ reserve_pile = <<>>
    /\ discard_pile = <<>>
    /\ current_tide_card = NoCard
    /\ tide_turn = 0

TideIdle ==
    /\ all_cards_definitions = <<>>
    /\ future_deck_size = 0
    /\ reshuffle_turns = {}
    /\ DefaultTurns
    /\ future_deck = <<>>
    /\ reserve_pile = <<>>
    /\ discard_pile = <<>>
    /\ current_tide_card = NoCard
    /\ tide_turn = 0

\* advance_turn_tide(tide_turn + 1); random.shuffle is called only by the
\* initial setup (p1) and by a triggered reshuffle (p2)
AdvanceTurnTide ==
    /\ tide_turn < MaxTurn
    /\ LET t     == tide_turn + 1
           defs  == all_cards_definitions
           d0    == Deck(future_deck, reserve_pile, discard_pile, current_tide_card)
           setup == t = setup_deck_turn /\ d0.future = <<>>
           resh  == t >= setup_deck_turn /\ t \in reshuffle_turns
       IN  \E p1 \in (IF setup THEN Shuffles(defs) ELSE {defs}) :
             LET d1 == IF setup
                       THEN SetupDeckForPlay(d0, defs, future_deck_size, p1)
                       ELSE d0
                 d2 == DiscardPrevious(d1, t)
                 d3 == DrawForTurn(d2, defs, t)
                 cs == CardsToShuffle(d3, defs)
             IN  \E p2 \in (IF resh THEN Shuffles(cs) ELSE {cs}) :
                   LET d4 == IF resh
                             THEN Reshuffle(d3, defs, future_deck_size, p2)
                             ELSE d3
                       d5 == IF t >= setup_deck_turn THEN RefillFromReserve(d4) ELSE d4
                   IN  /\ future_deck' = d5.future
                       /\ reserve_pile' = d5.reserve
                       /\ discard_pile' = d5.discard
                       /\ current_tide_card' = d5.current
                       /\ tide_turn' = t
    /\ UNCHANGED <<all_cards_definitions, future_deck_size, reshuffle_turns,
                   setup_deck_turn, last_fixed_turn, fixed_turns>>

\* a direct call of setup_deck_for_play()
SetupDeckForPlayCall ==
    /\ \E p \in Shuffles(all_cards_definitions) :
          LET d0 == Deck(future_deck, reserve_pile, discard_pile, current_tide_card)
              d1 == SetupDeckForPlay(d0, all_cards_definitions, future_deck_size, p)
          IN  /\ future_deck' = d1.future
              /\ reserve_pile' = d1.reserve
              /\ discard_pile' = d1.discard
              /\ current_tide_card' = d1.current
    /\ call' = "setup_deck_for_play"
    /\ UNCHANGED <<all_cards_definitions, future_deck_size, reshuffle_turns,
                   setup_deck_turn, last_fixed_turn, fixed_turns, tide_turn,
                   arg_a, arg_b, ret, raised>>

\* a direct call of reshuffle()
ReshuffleCall ==
    /\ LET d0 == Deck(future_deck, reserve_pile, discard_pile, current_tide_card)
       IN  \E p \in Shuffles(CardsToShuffle(d0, all_cards_definitions)) :
             LET d1 == Reshuffle(d0, all_cards_definitions, future_deck_size, p)
             IN  /\ future_deck' = d1.future
                 /\ reserve_pile' = d1.reserve
                 /\ discard_pile' = d1.discard
                 /\ current_tide_card' = d1.current
    /\ call' = "reshuffle"
    /\ UNCHANGED <<all_cards_definitions, future_deck_size, reshuffle_turns,
                   setup_deck_turn, last_fixed_turn, fixed_turns, tide_turn,
                   arg_a, arg_b, ret, raised>>

\* a deck whose configuration moves the setup turn, the fixed turns and the
\* last fixed turn
TideInitAnyTurns ==
    /\ \E cfg \in TideConfigs :
          /\ Cardinality(cfg[3]) <= 1
          /\ all_cards_definitions = [i \in 1..cfg[1] |-> i]
          /\ future_deck_size = cfg[2]
          /\ reshuffle_turns = cfg[3]
    /\ setup_deck_turn \in 1..MaxSetupTurn
    /\ last_fixed_turn \in 0..MaxFixedTurn
    /\ \E fixed \in SUBSET (1..MaxFixedTurn) : fixed_turns = [t \in fixed |-> "normal"]
    /\ future_deck = <<>>
    /\ reserve_pile = <<>>
    /\ discard_pile = <<>>
    /\ current_tide_card = NoCard
    /\ tide_turn = 0

(***************************************************************************)
(* Player action-point ledger.                                             *)
(***************************************************************************)
MAX_BANKED_AP == 10

\* mutant: strict comparison, the last available point cannot be spent
can_spend_ap_Strict(cost) ==
    (total_ap_for_spending_this_turn - action_points_spent_this_turn) > cost

\* Player.can_spend_ap
can_spend_ap(cost) ==
    (total_ap_for_spending_this_turn - action_points_spent_this_turn) >= cost

\* mutant: the thresholds are compared strictly
NewlyBanked_Strict(unspent) ==
    IF unspent > 10 THEN 10
    ELSE IF unspent > 5 THEN 5
    ELSE 0

\* the bank end_turn_banking_ap computes from the unspent AP
NewlyBanked(unspent) ==
    IF unspent >= 10 THEN 10
    ELSE IF unspent >= 5 THEN 5
    ELSE 0

PlayerInit ==
    /\ current_turn_base_ap = 0
    /\ action_points_spent_this_turn = 0
    /\ action_points_banked = 0
    /\ banked_ap_at_start_of_actions = 0
    /\ total_ap_for_spending_this_turn = 0
    /\ player_op = <<"init", 0, TRUE>>
    /\ turn_cycles = 0
    /\ cumulative_base_ap = 0
    /\ cumulative_spent_ap = 0

\* mutant: the AP spent in the turn before is carried into the new turn
PrepareForNewTurn_KeepSpent ==
    \E base \in 0..MaxBaseAP :
        /\ current_turn_base_ap' = base
        /\ banked_ap_at_start_of_actions' = action_points_banked
        /\ total_ap_for_spending_this_turn' = base + action_points_banked
        /\ player_op' = <<"prepare_for_new_turn", base, TRUE>>
        /\ UNCHANGED <<action_points_banked, action_points_spent_this_turn>>

\* Player.prepare_for_new_turn(base)
PrepareForNewTurn ==
    \E base \in 0..MaxBaseAP :
        /\ current_turn_base_ap' = base
        /\ action_points_spent_this_turn' = 0
        /\ banked_ap_at_start_of_actions' = action_points_banked
        /\ total_ap_for_spending_this_turn' = base + action_points_banked
        /\ player_op' = <<"prepare_for_new_turn", base, TRUE>>
        /\ UNCHANGED action_points_banked

\* Player.spend_ap(cost)
SpendAp ==
    \E cost \in 0..MaxCost :
        IF ~can_spend_ap(cost)
        THEN /\ player_op' = <<"spend_ap", cost, FALSE>>
             /\ UNCHANGED <<current_turn_base_ap, action_points_spent_this_turn,
                            action_points_banked, banked_ap_at_start_of_actions,
                            total_ap_for_spending_this_turn>>
        ELSE /\ action_points_spent_this_turn' = action_points_spent_this_turn + cost
             /\ player_op' = <<"spend_ap", cost, TRUE>>
             /\ UNCHANGED <<current_turn_base_ap, action_points_banked,
                            banked_ap_at_start_of_actions,
                            total_ap_for_spending_this_turn>>

\* mutant: the new bank is added to the bank carried into the turn
EndTurnBankingAp_Cumulative ==
    LET unspent == total_ap_for_spending_this_turn - action_points_spent_this_turn
    IN  /\ action_points_banked' =
               Min(action_points_banked + NewlyBanked(unspent), MAX_BANKED_AP)
        /\ player_op' = <<"end_turn_banking_ap", unspent, TRUE>>
        /\ UNCHANGED <<current_turn_base_ap, action_points_spent_this_turn,
                       banked_ap_at_start_of_actions,
                       total_ap_for_spending_this_turn>>

\* Player.end_turn_banking_ap()
EndTurnBankingAp ==
    LET unspent == total_ap_for_spending_this_turn - action_points_spent_this_turn
    IN  /\ action_points_banked' = Min(NewlyBanked(unspent), MAX_BANKED_AP)
        /\ player_op' = <<"end_turn_banking_ap", unspent, TRUE>>
        /\ UNCHANGED <<current_turn_base_ap, action_points_spent_this_turn,
                       banked_ap_at_start_of_actions,
                       total_ap_for_spending_this_turn>>

(***************************************************************************)
(* Hex coordinates (board.py, b_01.py).  A coordinate is <<col, row>>.     *)
(***************************************************************************)
Abs(x) == IF x < 0 THEN -x ELSE x

\* Python's x & 1
Bit0(x) == x % 2

AXIAL_DIRECTIONS ==
    << <<0, -1>>, <<1, -1>>, <<1, 0>>, <<0, 1>>, <<-1, 1>>, <<-1, 0>> >>

\* Board._oddq_to_axial
oddq_to_axial(col, row) == <<col, row - ((col + Bit0(col)) \div 2)>>

\* mutant: the "odd-q DOWN" formula of the commented-out line
axial_to_oddq_Down(q_axial, r_axial) ==
    <<q_axial, r_axial + ((q_axial - Bit0(q_axial)) \div 2)>>

\* Board._axial_to_oddq
axial_to_oddq(q_axial, r_axial) ==
    <<q_axial, r_axial + ((q_axial + Bit0(q_axial)) \div 2)>>

\* b_01.axial_to_cube
axial_to_cube(q, r) ==
    LET x == q
        z == r - ((q - Bit0(q)) \div 2)
    IN  <<x, (-x) - z, z>>

\* b_01.cube_to_axial
cube_to_axial(x, y, z) == <<x, z + ((x - Bit0(x)) \div 2)>>

\* the cell in direction d (1..6) of coordinate c, as get_neighbors computes it
DirectionCell(c, d) ==
    LET ax == oddq_to_axial(c[1], c[2])
    IN  axial_to_oddq(ax[1] + AXIAL_DIRECTIONS[d][1], ax[2] + AXIAL_DIRECTIONS[d][2])

\* mutant: the sixth direction is dropped
get_neighbors_FiveDirections(board, c) ==
    IF c \notin DOMAIN board THEN <<>>
    ELSE SelectSeq([d \in 1..5 |-> DirectionCell(c, d)],
                   LAMBDA n : n \in DOMAIN board)

\* Board.get_neighbors: the neighbours present on the board, in direction order
get_neighbors(board, c) ==
    IF c \notin DOMAIN board THEN <<>>
    ELSE SelectSeq([d \in 1..Len(AXIAL_DIRECTIONS) |-> DirectionCell(c, d)],
                   LAMBDA n : n \in DOMAIN board)

Terrains == {"plain", "swamp", "mountain", "sea", "reef"}

\* tide values handed to effective_terrain: GameState's three and the
\* "normal" of the tide cards
Tides == {"low", "mid", "high", "normal"}

\* Board.get_hex returning None
NoHex == "None"

\* Board.get_hex; a hex object is represented by its stored terrain
get_hex(board, c) == IF c \in DOMAIN board THEN board[c] ELSE NoHex

\* mutant: swamp and reef flood at low tide and dry at high tide
effective_terrain_Swapped(original_terrain, tide_type) ==
    IF original_terrain = NoHex THEN "void"
    ELSE IF original_terrain \in {"swamp", "reef"}
    THEN IF tide_type = "low" THEN "sea"
         ELSE IF tide_type = "high" THEN "plain"
         ELSE original_terrain
    ELSE original_terrain

\* Board.effective_terrain, of a hex with the given stored terrain
effective_terrain(original_terrain, tide_type) ==
    IF original_terrain = NoHex THEN "void"
    ELSE IF original_terrain = "swamp"
    THEN IF tide_type = "low" THEN "plain"
         ELSE IF tide_type = "high" THEN "sea"
         ELSE original_terrain
    ELSE IF original_terrain = "reef"
    THEN IF tide_type = "low" THEN "plain"
         ELSE IF tide_type = "high" THEN "sea"
         ELSE original_terrain
    ELSE original_terrain

(***************************************************************************)
(* A* search (utils/pathfinding.py).                                       *)
(***************************************************************************)
\* mutant: the |dq + dr| term is left out
heuristic_NoDiagonal(a, b) ==
    LET A == oddq_to_axial(a[1], a[2])
        B == oddq_to_axial(b[1], b[2])
    IN  (Abs(A[1] - B[1]) + Abs(A[2] - B[2])) \div 2

\* _heuristic
heuristic(a, b) ==
    LET A == oddq_to_axial(a[1], a[2])
        B == oddq_to_axial(b[1], b[2])
    IN  (Abs(A[1] - B[1]) + Abs(A[1] + A[2] - B[1] - B[2]) + Abs(A[2] - B[2])) \div 2

\* a_star_pathfinding returning None
NoPath == <<>>

\* Python's order on the heap entries (priority, (col, row))
HeapLess(e1, e2) ==
    \/ e1[1] < e2[1]
    \/ e1[1] = e2[1] /\ e1[2][1] < e2[2][1]
    \/ e1[1] = e2[1] /\ e1[2][1] = e2[2][1] /\ e1[2][2] < e2[2][2]

\* heapq.heappop: the least entry of the open set
HeapMin(open) == CHOOSE e \in open : \A o \in open : o = e \/ HeapLess(e, o)

\* the came_from walk that rebuilds the path, start first
RECURSIVE PathBack(_, _)
PathBack(came_from, cur) ==
    IF cur \in DOMAIN came_from
    THEN Append(PathBack(came_from, came_from[cur]), cur)
    ELSE <<>>

\* the while loop of a_star_pathfinding; open is the heap as a set of
\* <<priority, coordinate>> entries (no coordinate is in it twice)
RECURSIVE AStarLoop(_, _, _, _, _, _, _, _)
\* mutant: the final "no path" return sits inside the loop, so the search
\* gives up after the first hex taken from the open set
AStarLoop_GiveUp(board, start, goal, enter, tide, open, came_from, g_score) ==
    IF open = {} THEN NoPath
    ELSE IF HeapMin(open)[2] = goal
         THEN <<start>> \o PathBack(came_from, goal)
         ELSE NoPath

AStarLoop(board, start, goal, enter, tide, open, came_from, g_score) ==
    IF open = {} THEN NoPath
    ELSE
      LET top     == HeapMin(open)
          current == top[2]
          rest    == open \ {top}
      IN  IF current = goal
          THEN <<start>> \o PathBack(came_from, current)
          ELSE IF current \notin DOMAIN board
          THEN AStarLoop(board, start, goal, enter, tide, rest, came_from, g_score)
          ELSE
            LET tentative == g_score[current] + 1
                better == {n \in Range(get_neighbors(board, current)) :
                             /\ effective_terrain(board[n], tide) \in enter
                             /\ (n \notin DOMAIN g_score \/ tentative < g_score[n])}
                came2  == [n \in DOMAIN came_from \cup better |->
                             IF n \in better THEN current ELSE came_from[n]]
                g2     == [n \in DOMAIN g_score \cup better |->
                             IF n \in better THEN tentative ELSE g_score[n]]
                pushed == {<<tentative + heuristic(n, goal), n>> :
                             n \in {m \in better : \A e \in rest : e[2] # m}}
            IN  AStarLoop(board, start, goal, enter, tide, rest \cup pushed, came2, g2)

\* mutant: a unit on a hex it may not enter is refused every path
a_star_pathfinding_StartChecked(board, start, goal, enter, tide) ==
    IF start \in DOMAIN board /\ effective_terrain(board[start], tide) \notin enter
    THEN NoPath
    ELSE AStarLoop(board, start, goal, enter, tide,
                   {<<0, start>>}, <<>>, [n \in {start} |-> 0])

\* a_star_pathfinding(board, start_coords, goal_coords, unit_type, tide_type)
a_star_pathfinding(board, start, goal, enter, tide) ==
    AStarLoop(board, start, goal, enter, tide,
              {<<0, start>>}, <<>>, [n \in {start} |-> 0])

(***************************************************************************)
(* Calls of the query functions.                                           *)
(***************************************************************************)
BoardIdle ==
    /\ hexes = <<>>
    /\ tide_state = "mid"
    /\ can_enter = {}

\* the call returned
NoException == "none"

CallIdle ==
    /\ arg_a = <<0, 0>>
    /\ arg_b = <<0, 0>>
    /\ call = "none"
    /\ ret = <<>>
    /\ raised = NoException

Returned(name, value) ==
    /\ call' = name
    /\ ret' = value
    /\ raised' = NoException
    /\ UNCHANGED <<arg_a, arg_b, boardVars, moveVars, units_by_id>>

\* _axial_to_oddq(_oddq_to_axial(col, row))
OddqRoundTrip ==
    LET ax == oddq_to_axial(arg_a[1], arg_a[2])
    IN  Returned("oddq_round_trip", axial_to_oddq(ax[1], ax[2]))

\* _oddq_to_axial(_axial_to_oddq(q, r))
AxialRoundTrip ==
    LET off == axial_to_oddq(arg_a[1], arg_a[2])
    IN  Returned("axial_round_trip", oddq_to_axial(off[1], off[2]))

\* cube_to_axial(axial_to_cube(q, r))
CubeRoundTrip ==
    LET cube == axial_to_cube(arg_a[1], arg_a[2])
    IN  Returned("cube_round_trip", cube_to_axial(cube[1], cube[2], cube[3]))

\* _heuristic(a, b)
HeuristicCall == Returned("heuristic", heuristic(arg_a, arg_b))

\* board.get_neighbors(a)
GetNeighborsCall == Returned("get_neighbors", get_neighbors(hexes, arg_a))

\* board.effective_terrain(board.get_hex(a), tide)
EffectiveTerrainCall ==
    Returned("effective_terrain", effective_terrain(get_hex(hexes, arg_a), tide_state))

\* mutant: a coordinate that is no hex of the board is not an edge
is_edge_hex_AbsentInside(board, c) ==
    /\ get_hex(board, c) # NoHex
    /\ \E d \in 1..Len(AXIAL_DIRECTIONS) : get_hex(board, DirectionCell(c, d)) = NoHex

\* Board.is_edge_hex
is_edge_hex(board, c) ==
    IF get_hex(board, c) = NoHex THEN TRUE
    ELSE \E d \in 1..Len(AXIAL_DIRECTIONS) : get_hex(board, DirectionCell(c, d)) = NoHex

\* board.is_edge_hex(col, row)
IsEdgeHexCall == Returned("is_edge_hex", is_edge_hex(hexes, arg_a))

\* Board.place_freighter of board.py: the bubble, then a pod for each of the
\* first three direction indices that is one of 0..5
place_freighter(center, pod_axial_direction_indices) ==
    LET first == SubSeq(pod_axial_direction_indices, 1,
                        Min(Len(pod_axial_direction_indices), 3))
        valid == SelectSeq(first, LAMBDA i : 0 <= i /\ i < Len(AXIAL_DIRECTIONS))
    IN  <<center>> \o [k \in 1..Len(valid) |-> DirectionCell(center, valid[k] + 1)]

\* ANGLE_TO_INDEX of b_01.py, the indices counted from 1
ANGLE_TO_INDEX == [ang \in {0, 60, 120, 180, 240, 300} |-> (ang \div 60) + 1]

EVEN_Q_OFFSETS ==
    << <<1, 0>>, <<0, -1>>, <<-1, -1>>, <<-1, 0>>, <<-1, 1>>, <<0, 1>> >>

ODD_Q_OFFSETS ==
    << <<1, 0>>, <<1, -1>>, <<0, -1>>, <<-1, 0>>, <<0, 1>>, <<1, 1>> >>

\* Board.place_freighter of b_01.py for angles that are all keys of
\* ANGLE_TO_INDEX
b01_place_freighter(bubble, pod_angles) ==
    LET offsets == IF bubble[1] % 2 = 0 THEN EVEN_Q_OFFSETS ELSE ODD_Q_OFFSETS
    IN  <<bubble>> \o
        [k \in 1..Len(pod_angles) |->
            <<bubble[1] + offsets[ANGLE_TO_INDEX[pod_angles[k]]][1],
              bubble[2] + offsets[ANGLE_TO_INDEX[pod_angles[k]]][2]>>]

\* the pod entries handed to place_freighter: two or three values, each a
\* direction index, an angle, or neither
PodValues == (-1..Len(AXIAL_DIRECTIONS)) \cup DOMAIN ANGLE_TO_INDEX \cup {90}

PodEntries == [1..2 -> PodValues] \cup [1..3 -> PodValues]

\* board.place_freighter(col, row, indices) of board.py
PlaceFreighterCall == Returned("place_freighter", place_freighter(arg_a, arg_b))

\* board.place_freighter(q, r, angles) of b_01.py: ANGLE_TO_INDEX[ang] raises
\* KeyError for an angle that is no key
PlaceFreighterB01Call ==
    IF \E k \in DOMAIN arg_b : arg_b[k] \notin DOMAIN ANGLE_TO_INDEX
    THEN /\ call' = "b_01.place_freighter"
         /\ raised' = "KeyError"
         /\ ret' = <<>>
         /\ UNCHANGED <<arg_a, arg_b, boardVars, moveVars, units_by_id>>
    ELSE Returned("b_01.place_freighter", b01_place_freighter(arg_a, arg_b))

\* a_star_pathfinding(board, a, b, unit_type, tide)
AStarCall ==
    Returned("a_star_pathfinding",
             a_star_pathfinding(hexes, arg_a, arg_b, can_enter, tide_state))

(***************************************************************************)
(* MoveCommand (commands.py) on the unit "u1" of the game state.           *)
(***************************************************************************)
\* float('inf'): larger than every path length and AP amount of the model
Infinity == 1000000

\* _cached_path_state_tuple = None
NoKey == <<>>

\* a coordinate that is no hex of any board of the model
OffBoard == <<-1, -1>>

MoveIdle ==
    /\ unit_pos = <<0, 0>>
    /\ cmd_dest = <<0, 0>>
    /\ cached_path = NoPath
    /\ cached_path_state_tuple = NoKey
    /\ available_ap = 0
    /\ cmd_unit_id = "u1"
    /\ units_by_id = <<>>

\* (unit.col, unit.row, tide, dest_col, dest_row)
StateTupleForCache ==
    <<unit_pos[1], unit_pos[2], tide_state, cmd_dest[1], cmd_dest[2]>>

\* mutant: the tide is left out of the comparison with the stored key
CacheHit_IgnoreTide ==
    /\ cached_path_state_tuple # NoKey
    /\ <<cached_path_state_tuple[1], cached_path_state_tuple[2],
         cached_path_state_tuple[4], cached_path_state_tuple[5]>>
          = <<unit_pos[1], unit_pos[2], cmd_dest[1], cmd_dest[2]>>
    /\ cached_path # NoPath

\* the cached path is reused
CacheHit == cached_path_state_tuple = StateTupleForCache /\ cached_path # NoPath

\* the path _calculate_path returns
CalculatedPath ==
    IF CacheHit THEN cached_path
    ELSE a_star_pathfinding(hexes, unit_pos, cmd_dest, can_enter, tide_state)

\* what _calculate_path leaves in the cache
CacheUpdate(path) ==
    IF CacheHit
    THEN UNCHANGED <<cached_path, cached_path_state_tuple>>
    ELSE /\ cached_path' = path
         /\ cached_path_state_tuple' = StateTupleForCache

\* mutant: the cost counts the hexes of the path, the start included
CostOfPath_Length(path) == IF path # NoPath THEN Len(path) ELSE Infinity

\* the cost estimate_ap_cost derives from the path
CostOfPath(path) == IF path # NoPath THEN Len(path) - 1 ELSE Infinity

\* the unit ids GameState.units_by_id holds where a command is run: the unit
\* "u1" standing on unit_pos
StateUnitIds == {"u1"}

\* a unit id the game state does not hold
MissingUnitId == "u9"

\* mutant: a unit id that is not in the state is looked up without complaint
get_unit_raises_Never(unit_id) == FALSE

\* GameState.get_unit: the assert fails for a unit id that is not a key
get_unit_raises(unit_id) == unit_id \notin StateUnitIds

\* the call ends with an exception: nothing is returned, nothing is written
Raise(name, exception) ==
    /\ call' = name
    /\ raised' = exception
    /\ UNCHANGED <<ret, arg_a, arg_b, boardVars, moveVars, units_by_id>>

\* state.get_unit(self.unit_id), returning the unit's (col, row)
GetUnitCall ==
    IF get_unit_raises(cmd_unit_id)
    THEN Raise("get_unit", "AssertionError")
    ELSE Returned("get_unit", unit_pos)

\* MoveCommand(unit_id, dest_col, dest_row) for a unit id of ids
NewMoveCommandFor(ids) ==
    \E id \in ids, dest \in DOMAIN hexes \cup {OffBoard} :
        /\ cmd_unit_id' = id
        /\ cmd_dest' = dest
        /\ cached_path' = NoPath
        /\ cached_path_state_tuple' = NoKey
        /\ call' = "MoveCommand"
        /\ ret' = <<>>
        /\ raised' = NoException
        /\ UNCHANGED <<unit_pos, available_ap, arg_a, arg_b, boardVars, units_by_id>>

\* MoveCommand(unit_id, dest_col, dest_row) for the unit of the state
NewMoveCommand == NewMoveCommandFor(StateUnitIds)

\* MoveCommand(unit_id, dest_col, dest_row) for any unit id
NewMoveCommandAnyUnit == NewMoveCommandFor(StateUnitIds \cup {MissingUnitId})

\* MoveCommand.estimate_ap_cost(state)
EstimateApCost ==
    IF get_unit_raises(cmd_unit_id)
    THEN Raise("estimate_ap_cost", "AssertionError")
    ELSE \E path \in {CalculatedPath} :
            /\ CacheUpdate(path)
            /\ call' = "estimate_ap_cost"
            /\ ret' = CostOfPath(path)
            /\ raised' = NoException
            /\ UNCHANGED <<unit_pos, cmd_dest, available_ap, cmd_unit_id,
                           arg_a, arg_b, boardVars, units_by_id>>

\* mutant: the command needs AP to spare
can_execute_Strict(ap, cost) == ap > cost

\* available_ap >= self.estimate_ap_cost(state)
can_execute(ap, cost) == ap >= cost

\* GameCommand.can_execute(state, available_ap) of the MoveCommand
CanExecute ==
    IF get_unit_raises(cmd_unit_id)
    THEN Raise("can_execute", "AssertionError")
    ELSE \E path \in {CalculatedPath}, ap \in 0..MaxAvailableAP :
            /\ CacheUpdate(path)
            /\ available_ap' = ap
            /\ call' = "can_execute"
            /\ ret' = can_execute(ap, CostOfPath(path))
            /\ raised' = NoException
            /\ UNCHANGED <<unit_pos, cmd_dest, cmd_unit_id, arg_a, arg_b,
                           boardVars, units_by_id>>

\* mutant: the unit takes the first step of the path only
PositionAfter_OneStep(path) ==
    IF path # NoPath THEN path[Min(2, Len(path))] ELSE unit_pos

\* (unit.col, unit.row) after execute: path[-1], or untouched without a path
PositionAfter(path) == IF path # NoPath THEN path[Len(path)] ELSE unit_pos

\* unit_to_move.col, unit_to_move.row = pos in the record of the moved unit,
\* where the units of the state are held as records
MovedUnit(pos) ==
    IF cmd_unit_id \in DOMAIN units_by_id
    THEN [units_by_id EXCEPT ![cmd_unit_id].pos = pos]
    ELSE units_by_id

\* mutant: the second hex of a two-hex unit is dragged to the new position
Execute_DragsSecondHex ==
    IF get_unit_raises(cmd_unit_id)
    THEN Raise("execute", "AssertionError")
    ELSE \E path \in {CalculatedPath} :
            /\ CacheUpdate(path)
            /\ unit_pos' = PositionAfter(path)
            /\ units_by_id' =
                  IF cmd_unit_id \in DOMAIN units_by_id /\ PositionAfter(path) # unit_pos
                  THEN [units_by_id EXCEPT ![cmd_unit_id].pos = PositionAfter(path),
                                           ![cmd_unit_id].second_hex = PositionAfter(path)]
                  ELSE units_by_id
            /\ call' = "execute"
            /\ ret' = <<>>
            /\ raised' = NoException
            /\ UNCHANGED <<cmd_dest, available_ap, cmd_unit_id, arg_a, arg_b,
                           boardVars>>

\* MoveCommand.execute(state)
Execute ==
    IF get_unit_raises(cmd_unit_id)
    THEN Raise("execute", "AssertionError")
    ELSE \E path \in {CalculatedPath} :
            /\ CacheUpdate(path)
            /\ unit_pos' = PositionAfter(path)
            /\ units_by_id' = MovedUnit(PositionAfter(path))
            /\ call' = "execute"
            /\ ret' = <<>>
            /\ raised' = NoException
            /\ UNCHANGED <<cmd_dest, available_ap, cmd_unit_id, arg_a, arg_b,
                           boardVars>>

\* state.tide_state = tide, written between two calls of the command
SetTideState ==
    \E tide \in Tides \ {tide_state} :
        /\ tide_state' = tide
        /\ call' = "set_tide_state"
        /\ ret' = <<>>
        /\ raised' = NoException
        /\ UNCHANGED <<hexes, can_enter, moveVars, units_by_id, arg_a, arg_b>>

\* unit.col, unit.row = pos, written between two calls of the command
SetUnitPosition ==
    \E pos \in DOMAIN hexes \ {unit_pos} :
        /\ unit_pos' = pos
        /\ call' = "set_unit_position"
        /\ ret' = <<>>
        /\ raised' = NoException
        /\ UNCHANGED <<cmd_dest, cached_path, cached_path_state_tuple, available_ap,
                       cmd_unit_id, boardVars, units_by_id, arg_a, arg_b>>

\* command.dest_col, command.dest_row = dest on the same command object
SetDestination ==
    \E dest \in DOMAIN hexes \ {cmd_dest} :
        /\ cmd_dest' = dest
        /\ call' = "set_destination"
        /\ ret' = <<>>
        /\ raised' = NoException
        /\ UNCHANGED <<unit_pos, cached_path, cached_path_state_tuple, available_ap,
                       cmd_unit_id, boardVars, units_by_id, arg_a, arg_b>>

(***************************************************************************)
(* Board.apply_tide_effects (board.py) on the units of the game state.     *)
(***************************************************************************)
\* the unit has no is_neutralised attribute (units.py declares none)
NoFlag == "absent"

Flags == {NoFlag, "True", "False"}

\* mutant: the rule looks at the effective terrain of the hex
NeutralisedByThisRule_Effective(terrain, tide) ==
    effective_terrain(terrain, tide) = "swamp" /\ tide = "high"

\* neutralised_by_this_rule
NeutralisedByThisRule(terrain, tide) == terrain = "swamp" /\ tide = "high"

\* mutant: the rule is applied to units of every type
UnitAfterTideEffects_AnyType(board, tide, unit) ==
    IF unit.pos \in DOMAIN board
    THEN [unit EXCEPT !.is_neutralised =
              IF NeutralisedByThisRule(board[unit.pos], tide) THEN "True" ELSE "False"]
    ELSE [unit EXCEPT !.is_neutralised = IF @ = NoFlag THEN "False" ELSE @]

\* one pass of the loop body of apply_tide_effects
UnitAfterTideEffects(board, tide, unit) ==
    LET with_flag == [unit EXCEPT !.is_neutralised = IF @ = NoFlag THEN "False" ELSE @]
    IN  IF unit.unit_type_id = "attack_boat" /\ get_hex(board, unit.pos) # NoHex
        THEN [with_flag EXCEPT !.is_neutralised =
                 IF NeutralisedByThisRule(board[unit.pos], tide) THEN "True" ELSE "False"]
        ELSE with_flag

\* board.apply_tide_effects(game_state)
ApplyTideEffects ==
    /\ units_by_id' = [u \in DOMAIN units_by_id |->
                          UnitAfterTideEffects(hexes, tide_state, units_by_id[u])]
    /\ call' = "apply_tide_effects"
    /\ ret' = <<>>
    /\ raised' = NoException
    /\ UNCHANGED <<arg_a, arg_b, boardVars, moveVars>>

(***************************************************************************)
(* TurnManager (turn_manager.py) and GameEngine._play_game_turn.           *)
(***************************************************************************)
\* get_turn_definition returns None
NoTurn == <<>>

\* an engine without players, unit data and zones: nothing lands
LandingIdle ==
    /\ hex_zone = <<>>
    /\ hex_ore = <<>>
    /\ pod_shapes = <<>>
    /\ players = <<>>
    /\ landing_index = 0
    /\ freighter_landings = <<>>
    /\ landed_freighter_zones = {}
    /\ freighter_landed = {}
    /\ landing_log = <<>>
    /\ deployment_index = 0
    /\ units_on_board = <<>>
    /\ units_in_freighter = <<>>

EngineIdle ==
    /\ turn_definitions = <<>>
    /\ current_turn_number = 0
    /\ game_over = FALSE
    /\ turn_steps = <<>>
    /\ LandingIdle

\* mutant: past the registered numbers the last definition is returned
get_turn_definition_Clamped(defs, turn_number) ==
    IF turn_number \in DOMAIN defs THEN <<turn_number, defs[turn_number]>>
    ELSE IF \E n \in DOMAIN defs : n < turn_number
         THEN LET last == CHOOSE n \in DOMAIN defs : \A m \in DOMAIN defs : m <= n
              IN  <<last, defs[last]>>
         ELSE NoTurn

\* self.turn_definitions.get(turn_number), a definition being
\* (number, action_points)
get_turn_definition(defs, turn_number) ==
    IF turn_number \in DOMAIN defs THEN <<turn_number, defs[turn_number]>>
    ELSE NoTurn

\* the turns_data a TurnManager is built from: definitions for any set of
\* numbers up to MaxTurnNumber
TurnManagerInit ==
    /\ \E numbers \in SUBSET (1..MaxTurnNumber) :
          turn_definitions \in [numbers -> {1, MaxBaseAP}]
    /\ current_turn_number = 0
    /\ game_over = FALSE
    /\ turn_steps = <<>>
    /\ LandingIdle

\* TurnManager.advance_turn()
AdvanceTurn ==
    /\ current_turn_number < MaxTurnNumber + 2
    /\ current_turn_number' = current_turn_number + 1
    /\ call' = "advance_turn"
    /\ ret' = get_turn_definition(turn_definitions, current_turn_number + 1)
    /\ raised' = NoException
    /\ UNCHANGED <<turn_definitions, game_over, turn_steps, arg_a, arg_b,
                   landingVars>>

\* the turn-specific phase _play_game_turn runs for a turn number
TurnPhase(number) ==
    IF number = 1 THEN "_handle_turn_1_arrival"
    ELSE IF number = 2 THEN "_handle_turn_2_deployment"
    ELSE "_handle_player_actions"

(***************************************************************************)
(* Freighter landing of turn 1 (GameEngine._handle_turn_1_arrival).        *)
(***************************************************************************)
\* Hex.zone_id of a hex in no zone
NoZone == "None"

\* str(i) for the zone numbers 1 .. 14: mainland_zones + island_zones
all_landing_zones ==
    <<"1", "2", "3", "4", "5", "6", "7", "8", "9", "10", "11", "12", "13", "14">>

island_zones == {"13", "14"}

\* int(zone_id_str)
ZoneInt(z) == CHOOSE i \in DOMAIN all_landing_zones : all_landing_zones[i] = z

\* mutant: the ring is not closed, zone 12 and zone 1 are no neighbours
get_adjacent_zone_ids_OpenRing(z) ==
    IF z \in island_zones THEN {}
    ELSE LET zone_int == ZoneInt(z)
         IN  {all_landing_zones[n] : n \in {zone_int - 1, zone_int + 1} \cap (1..12)}

\* GameEngine._get_adjacent_zone_ids, for a zone id of all_landing_zones
get_adjacent_zone_ids(z) ==
    IF z \in island_zones THEN {}
    ELSE LET zone_int == ZoneInt(z)
         IN  IF 1 <= zone_int /\ zone_int <= 12
             THEN {all_landing_zones[((zone_int - 2 + 12) % 12) + 1],
                   all_landing_zones[(zone_int % 12) + 1]}
             ELSE {}

\* Board.get_hexes_in_zone, as a set of coordinates
get_hexes_in_zone(z) == {c \in DOMAIN hexes : hex_zone[c] = z}

\* the hexes of the freighters landed so far
current_all_landed_hexes ==
    UNION {Range(freighter_landings[p].occupied_hexes) : p \in DOMAIN freighter_landings}

\* the checks a bubble candidate and a pod shape pass before "Landed!"
FootprintAccepted(zone, bubble, shape) ==
    LET coords == place_freighter(bubble, shape)
    IN  /\ hexes[bubble] \in {"plain", "swamp"}
        /\ Len(coords) = 4
        /\ \A k \in DOMAIN coords :
              /\ get_hex(hexes, coords[k]) \in {"plain", "swamp"}
              /\ coords[k] \notin current_all_landed_hexes
        /\ \A k \in 2..Len(coords) : hex_zone[coords[k]] \in {NoZone, zone}
        /\ \A k \in DOMAIN coords : ~is_edge_hex(hexes, coords[k])

\* mutant: the ore of every hex that has a zone is cleared
OreAfterLanding_EveryZone(chosen_zone_id) ==
    [c \in DOMAIN hex_ore |-> IF hex_zone[c] # NoZone THEN FALSE ELSE hex_ore[c]]

\* the ore flags after a landing in the zone: cleared on the hexes of the zone
OreAfterLanding(chosen_zone_id) ==
    [c \in DOMAIN hex_ore |-> IF hex_zone[c] = chosen_zone_id THEN FALSE ELSE hex_ore[c]]

\* the loop is done with one more player and nothing else has changed
PlayerNotLanded(player, outcome) ==
    /\ landing_index' = landing_index + 1
    /\ landing_log' = <<player, outcome>>
    /\ UNCHANGED <<hex_zone, hex_ore, pod_shapes, players, freighter_landings,
                   landed_freighter_zones, freighter_landed, deployVars>>

\* one pass of the loop over the players in _handle_turn_1_arrival: the zone
\* is random.choice of the available zones, and with the bubble candidates
\* and the pod shapes shuffled every accepted footprint can be the first
LandPlayer ==
    /\ pod_shapes # <<>>
    /\ landing_index < Len(players)
    /\ LET player    == players[landing_index + 1]
           forbidden == landed_freighter_zones
                            \cup UNION {get_adjacent_zone_ids(z) : z \in landed_freighter_zones}
           available == Range(all_landing_zones) \ forbidden
       IN  IF available = {}
           THEN PlayerNotLanded(player, "no_zone")
           ELSE \E chosen_zone_id \in available :
                  LET accepted ==
                          {a \in get_hexes_in_zone(chosen_zone_id) \X DOMAIN pod_shapes :
                              FootprintAccepted(chosen_zone_id, a[1], pod_shapes[a[2]])}
                  IN  IF accepted = {}
                      THEN PlayerNotLanded(player, "no_footprint")
                      ELSE \E a \in accepted :
                             /\ freighter_landings' =
                                   [p \in DOMAIN freighter_landings \cup {player} |->
                                       IF p = player
                                       THEN [zone_id |-> chosen_zone_id,
                                             occupied_hexes |->
                                                 place_freighter(a[1], pod_shapes[a[2]]),
                                             pod_shape_angles |-> pod_shapes[a[2]]]
                                       ELSE freighter_landings[p]]
                             /\ landed_freighter_zones' =
                                   landed_freighter_zones \cup {chosen_zone_id}
                             /\ freighter_landed' = freighter_landed \cup {player}
                             /\ hex_ore' = OreAfterLanding(chosen_zone_id)
                             /\ landing_index' = landing_index + 1
                             /\ landing_log' = <<player, "landed">>
                             /\ UNCHANGED <<hex_zone, pod_shapes, players, deployVars>>
    /\ UNCHANGED <<turn_definitions, current_turn_number, game_over, turn_steps>>

\* _handle_turn_1_arrival without starfreighter pod shapes: the handler
\* returns before the loop
ArrivalWithoutPodShapes ==
    /\ pod_shapes = <<>>
    /\ landing_index < Len(players)
    /\ landing_index' = Len(players)
    /\ landing_log' = <<"all", "no_pod_shapes">>
    /\ UNCHANGED <<hex_zone, hex_ore, pod_shapes, players, freighter_landings,
                   landed_freighter_zones, freighter_landed, deployVars>>
    /\ UNCHANGED <<turn_definitions, current_turn_number, game_over, turn_steps>>

\* mutant: the game is not stopped after turn 2
PlayGameTurn_NoStop ==
    /\ ~game_over
    /\ LET number           == current_turn_number + 1
           current_turn_def == get_turn_definition(turn_definitions, number)
       IN  /\ current_turn_number' = number
           /\ IF current_turn_def = NoTurn
              THEN /\ game_over' = TRUE
                   /\ turn_steps' = <<"advance_turn">>
                   /\ UNCHANGED tideVars
              ELSE /\ AdvanceTurnTide
                   /\ turn_steps' = <<"advance_turn", "advance_turn_tide", TurnPhase(number)>>
                   /\ game_over' = FALSE
    /\ UNCHANGED <<turn_definitions, landingVars>>

\* one pass of the run_game loop: _play_game_turn() while not game_over; the
\* turn number handed to advance_turn_tide is tide_turn + 1, every earlier
\* turn having been played
PlayGameTurn ==
    /\ ~game_over
    /\ LET number           == current_turn_number + 1
           current_turn_def == get_turn_definition(turn_definitions, number)
       IN  /\ current_turn_number' = number
           /\ IF current_turn_def = NoTurn
              THEN /\ game_over' = TRUE
                   /\ turn_steps' = <<"advance_turn">>
                   /\ UNCHANGED tideVars
              ELSE /\ AdvanceTurnTide
                   /\ turn_steps' = <<"advance_turn", "advance_turn_tide",
                                      TurnPhase(number)>>
                   /\ game_over' = (number = 2)
    /\ UNCHANGED <<turn_definitions, landingVars>>

(***************************************************************************)
(* Specifications.                                                         *)
(***************************************************************************)
InitTide == TideInit /\ PlayerInit /\ EngineIdle /\ BoardIdle /\ CallIdle /\ MoveIdle

NextTide ==
    AdvanceTurnTide /\ UNCHANGED <<playerVars, engineVars, boardVars, callVars, moveVars, units_by_id>>

SpecTide == InitTide /\ [][NextTide]_vars

\* the default deck without reshuffle triggers, setup_deck_for_play being
\* called directly at any time between the turns as well
InitSetup == InitTide /\ reshuffle_turns = {}

NextSetup ==
    \/ /\ AdvanceTurnTide
       /\ call' = "advance_turn_tide"
       /\ UNCHANGED <<arg_a, arg_b, ret, raised, playerVars, engineVars, boardVars, moveVars, units_by_id>>
    \/ SetupDeckForPlayCall /\ UNCHANGED <<playerVars, engineVars, boardVars, moveVars, units_by_id>>

SpecSetup == InitSetup /\ [][NextSetup]_vars

\* the default deck with at most one reshuffle trigger turn, reshuffle being
\* called directly at any time between the turns as well
InitReshuffle == InitTide /\ Cardinality(reshuffle_turns) <= 1

NextReshuffle ==
    \/ /\ AdvanceTurnTide
       /\ call' = "advance_turn_tide"
       /\ UNCHANGED <<arg_a, arg_b, ret, raised, playerVars, engineVars, boardVars, moveVars, units_by_id>>
    \/ ReshuffleCall /\ UNCHANGED <<playerVars, engineVars, boardVars, moveVars, units_by_id>>

SpecReshuffle == InitReshuffle /\ [][NextReshuffle]_vars

\* consecutive turns of decks with any setup turn and any set of fixed turns
InitTideConfig == TideInitAnyTurns /\ PlayerInit /\ EngineIdle /\ BoardIdle /\ CallIdle /\ MoveIdle

SpecTideConfig == InitTideConfig /\ [][NextTide]_vars

\* decks with any setup turn and any set of fixed turns, the last fixed turn
\* being the default
InitTideDraw == InitTideConfig /\ last_fixed_turn = LastFixedTurn

SpecTideDraw == InitTideDraw /\ [][NextTide]_vars

\* the default deck without reshuffle triggers, advanced turn after turn
SpecTideDefault == InitSetup /\ [][NextTide]_vars

InitPlayer == PlayerInit /\ EngineIdle /\ TideIdle /\ BoardIdle /\ CallIdle /\ MoveIdle

NextPlayer ==
    \/ PrepareForNewTurn /\ UNCHANGED <<historyVars, tideVars, boardVars, callVars, moveVars, units_by_id, engineVars>>
    \/ SpendAp /\ UNCHANGED <<historyVars, tideVars, boardVars, callVars, moveVars, units_by_id, engineVars>>
    \/ EndTurnBankingAp /\ UNCHANGED <<historyVars, tideVars, boardVars, callVars, moveVars, units_by_id, engineVars>>

SpecPlayer == InitPlayer /\ [][NextPlayer]_vars

\* the turn cycle the engine runs for a player: prepare_for_new_turn, any
\* number of spend_ap calls, end_turn_banking_ap; at most MaxCycles cycles
MaxCycles == 2

CyclePrepare ==
    /\ player_op[1] \in {"init", "end_turn_banking_ap"}
    /\ turn_cycles < MaxCycles
    /\ PrepareForNewTurn
    /\ turn_cycles' = turn_cycles + 1
    /\ cumulative_base_ap' = cumulative_base_ap + current_turn_base_ap'
    /\ UNCHANGED cumulative_spent_ap

CycleSpend ==
    /\ player_op[1] \in {"prepare_for_new_turn", "spend_ap"}
    /\ SpendAp
    /\ cumulative_spent_ap' = cumulative_spent_ap
          + (action_points_spent_this_turn' - action_points_spent_this_turn)
    /\ UNCHANGED <<turn_cycles, cumulative_base_ap>>

CycleEnd ==
    /\ player_op[1] \in {"prepare_for_new_turn", "spend_ap"}
    /\ EndTurnBankingAp
    /\ UNCHANGED historyVars

NextTurnCycle ==
    \/ CyclePrepare /\ UNCHANGED <<tideVars, boardVars, callVars, moveVars, units_by_id, engineVars>>
    \/ CycleSpend /\ UNCHANGED <<tideVars, boardVars, callVars, moveVars, units_by_id, engineVars>>
    \/ CycleEnd /\ UNCHANGED <<tideVars, boardVars, callVars, moveVars, units_by_id, engineVars>>

SpecTurnCycle == InitPlayer /\ [][NextTurnCycle]_vars

\* coordinate arithmetic on every pair of coordinates of a square around the
\* origin (negative and odd columns included)
CoordCells == (-CoordRadius..CoordRadius) \X (-CoordRadius..CoordRadius)

InitCoord ==
    /\ TideIdle /\ PlayerInit /\ EngineIdle /\ BoardIdle /\ MoveIdle
    /\ arg_a \in CoordCells
    /\ arg_b \in CoordCells
    /\ call = "none"
    /\ ret = <<>>
    /\ raised = NoException

NextCoord ==
    \/ OddqRoundTrip /\ UNCHANGED <<tideVars, playerVars, engineVars>>
    \/ AxialRoundTrip /\ UNCHANGED <<tideVars, playerVars, engineVars>>
    \/ CubeRoundTrip /\ UNCHANGED <<tideVars, playerVars, engineVars>>
    \/ HeuristicCall /\ UNCHANGED <<tideVars, playerVars, engineVars>>

SpecCoord == InitCoord /\ [][NextCoord]_vars

\* board queries on a square board around the origin with at most one hex
\* missing (a dropped half-hex) and one hex of any terrain
BoardCells == (-BoardRadius..BoardRadius) \X (-BoardRadius..BoardRadius)

InitBoard ==
    /\ TideIdle /\ PlayerInit /\ EngineIdle /\ MoveIdle
    /\ arg_a \in BoardCells
    /\ arg_b = arg_a
    /\ \E missing \in {{}} \cup {{h} : h \in BoardCells}, t \in Terrains :
          hexes = [c \in BoardCells \ missing |-> IF c = arg_a THEN t ELSE "plain"]
    /\ tide_state \in Tides
    /\ can_enter = {}
    /\ call = "none"
    /\ ret = <<>>
    /\ raised = NoException

NextBoard ==
    \/ GetNeighborsCall /\ UNCHANGED <<tideVars, playerVars, engineVars>>
    \/ EffectiveTerrainCall /\ UNCHANGED <<tideVars, playerVars, engineVars>>

SpecBoard == InitBoard /\ [][NextBoard]_vars

\* edge queries on the boards of the board queries
NextEdge ==
    \/ IsEdgeHexCall /\ UNCHANGED <<tideVars, playerVars, engineVars>>
    \/ GetNeighborsCall /\ UNCHANGED <<tideVars, playerVars, engineVars>>

SpecEdge == InitBoard /\ [][NextEdge]_vars

\* freighters placed around every bubble coordinate, with valid and invalid
\* pod entries, by the Board of board.py and by the Board of b_01.py
InitFreighter ==
    /\ TideIdle /\ PlayerInit /\ EngineIdle /\ BoardIdle /\ MoveIdle
    /\ arg_a \in BoardCells
    /\ arg_b \in PodEntries
    /\ call = "none"
    /\ ret = <<>>
    /\ raised = NoException

NextFreighter ==
    \/ PlaceFreighterCall /\ UNCHANGED <<tideVars, playerVars, engineVars>>
    \/ PlaceFreighterB01Call /\ UNCHANGED <<tideVars, playerVars, engineVars>>

SpecFreighter == InitFreighter /\ [][NextFreighter]_vars

\* path searches on a rectangular plain board with at most one hex of another
\* terrain, for the capability sets the code and its tests use, from and to
\* every cell and one coordinate off the board
AStarCells == (0..(AStarCols - 1)) \X (0..(AStarRows - 1))

\* "tank" of the tests, the default MockUnitType, "attack_boat" of the tests
Capabilities == {Terrains, {"plain"}, {"sea"}}

InitAStar ==
    /\ TideIdle /\ PlayerInit /\ EngineIdle /\ MoveIdle
    /\ \E odd \in {{}} \cup {{h} : h \in AStarCells}, t \in {"mountain", "swamp"} :
          hexes = [c \in AStarCells |-> IF c \in odd THEN t ELSE "plain"]
    /\ tide_state \in {"low", "mid", "high"}
    /\ can_enter \in Capabilities
    /\ arg_a \in AStarCells \cup {OffBoard}
    /\ arg_b \in AStarCells \cup {OffBoard}
    /\ call = "none"
    /\ ret = <<>>
    /\ raised = NoException

NextAStar == AStarCall /\ UNCHANGED <<tideVars, playerVars, engineVars>>

SpecAStar == InitAStar /\ [][NextAStar]_vars

\* move commands for one unit on a rectangular board of one terrain, for the
\* "tank" and the default capability set, at low and at mid tide; the first
\* command is one to the unit's own hex
Rectangle(w, h) == (0..(w - 1)) \X (0..(h - 1))

InitMove ==
    /\ TideIdle /\ PlayerInit /\ EngineIdle
    /\ \E w \in 1..MaxCols, h \in 1..MaxRows, t \in {"plain", "swamp"} :
          /\ hexes = [c \in Rectangle(w, h) |-> t]
          /\ unit_pos \in Rectangle(w, h)
    /\ cmd_dest = unit_pos
    /\ tide_state \in {"low", "mid"}
    /\ can_enter \in {Terrains, {"plain"}}
    /\ cached_path = NoPath
    /\ cached_path_state_tuple = NoKey
    /\ available_ap = 0
    /\ cmd_unit_id = "u1"
    /\ units_by_id = <<>>
    /\ CallIdle

NextMove ==
    \/ NewMoveCommand /\ UNCHANGED <<tideVars, playerVars, engineVars>>
    \/ EstimateApCost /\ UNCHANGED <<tideVars, playerVars, engineVars>>
    \/ Execute /\ UNCHANGED <<tideVars, playerVars, engineVars>>

SpecMove == InitMove /\ [][NextMove]_vars

\* the life cycle of move commands (construct, estimate, can_execute, execute)
\* for a unit of the default capability set on a plain board with at most one
\* swamp hex (plain at low tide, closed to the unit at mid tide), the unit
\* standing on a hex or off the board
InitCommand ==
    /\ TideIdle /\ PlayerInit /\ EngineIdle
    /\ \E odd \in {{}} \cup {{h} : h \in Rectangle(CmdCols, CmdRows)} :
          hexes = [c \in Rectangle(CmdCols, CmdRows) |->
                      IF c \in odd THEN "swamp" ELSE "plain"]
    /\ unit_pos \in Rectangle(CmdCols, CmdRows) \cup {OffBoard}
    /\ cmd_dest = unit_pos
    /\ tide_state \in {"low", "mid"}
    /\ can_enter = {"plain"}
    /\ cached_path = NoPath
    /\ cached_path_state_tuple = NoKey
    /\ available_ap = 0
    /\ cmd_unit_id = "u1"
    /\ units_by_id = <<>>
    /\ CallIdle

NextCommand ==
    \/ NewMoveCommand /\ UNCHANGED <<tideVars, playerVars, engineVars>>
    \/ EstimateApCost /\ UNCHANGED <<tideVars, playerVars, engineVars>>
    \/ CanExecute /\ UNCHANGED <<tideVars, playerVars, engineVars>>
    \/ Execute /\ UNCHANGED <<tideVars, playerVars, engineVars>>

SpecCommand == InitCommand /\ [][NextCommand]_vars

\* one move command, made at low tide for the unit's own hex on a two-row
\* plain board with a swamp hex at (1, 0), used again and again while the
\* tide, the unit's position and the command's destination are written
\* between its calls
InitCache ==
    /\ TideIdle /\ PlayerInit /\ EngineIdle
    /\ hexes = [c \in Rectangle(CacheCols, 2) |->
                  IF c = <<1, 0>> THEN "swamp" ELSE "plain"]
    /\ unit_pos \in Rectangle(CacheCols, 2)
    /\ cmd_dest = unit_pos
    /\ tide_state = "low"
    /\ can_enter = {"plain"}
    /\ cached_path = NoPath
    /\ cached_path_state_tuple = NoKey
    /\ available_ap = 0
    /\ cmd_unit_id = "u1"
    /\ units_by_id = <<>>
    /\ CallIdle

NextCache ==
    \/ EstimateApCost /\ UNCHANGED <<tideVars, playerVars, engineVars>>
    \/ Execute /\ UNCHANGED <<tideVars, playerVars, engineVars>>
    \/ SetTideState /\ UNCHANGED <<tideVars, playerVars, engineVars>>
    \/ SetUnitPosition /\ UNCHANGED <<tideVars, playerVars, engineVars>>
    \/ SetDestination /\ UNCHANGED <<tideVars, playerVars, engineVars>>

SpecCache == InitCache /\ [][NextCache]_vars

\* commands and unit look-ups for a unit id the game state holds and for one
\* it does not hold
NextLookup ==
    \/ NewMoveCommandAnyUnit /\ UNCHANGED <<tideVars, playerVars, engineVars>>
    \/ GetUnitCall /\ UNCHANGED <<tideVars, playerVars, engineVars>>
    \/ EstimateApCost /\ UNCHANGED <<tideVars, playerVars, engineVars>>
    \/ CanExecute /\ UNCHANGED <<tideVars, playerVars, engineVars>>
    \/ Execute /\ UNCHANGED <<tideVars, playerVars, engineVars>>

SpecLookup == InitCommand /\ [][NextLookup]_vars

\* Unit(unit_id, unit_type_id, player_id, col, row, second_hex_col,
\* second_hex_row, cargo, is_in_freighter) with the flag tide effects set
NoSecondHex == <<>>

UnitRecord(type, pos, second, cargo, flag) ==
    [unit_type_id |-> type, player_id |-> "P1", pos |-> pos,
     second_hex |-> second, cargo |-> cargo,
     is_in_freighter |-> (pos = OffBoard), is_neutralised |-> flag]

\* move commands run on a game state that holds the unit "u1" (a barge with
\* a second hex or a one-hex unit, with or without cargo) and another unit,
\* for a player in the middle of a turn
InitExecute ==
    /\ TideIdle /\ EngineIdle /\ CallIdle
    /\ current_turn_base_ap = MaxBaseAP
    /\ action_points_spent_this_turn = 0
    /\ action_points_banked = 5
    /\ banked_ap_at_start_of_actions = 5
    /\ total_ap_for_spending_this_turn = MaxBaseAP + 5
    /\ player_op = <<"prepare_for_new_turn", MaxBaseAP, TRUE>>
    /\ turn_cycles = 1
    /\ cumulative_base_ap = MaxBaseAP
    /\ cumulative_spent_ap = 0
    /\ \E odd \in {{}} \cup {{h} : h \in Rectangle(CmdCols, CmdRows)} :
          hexes = [c \in Rectangle(CmdCols, CmdRows) |->
                      IF c \in odd THEN "swamp" ELSE "plain"]
    /\ unit_pos \in Rectangle(CmdCols, CmdRows) \cup {OffBoard}
    /\ cmd_dest = unit_pos
    /\ tide_state \in {"low", "mid"}
    /\ can_enter = {"plain"}
    /\ cached_path = NoPath
    /\ cached_path_state_tuple = NoKey
    /\ available_ap = 0
    /\ cmd_unit_id = "u1"
    /\ \E u1 \in {UnitRecord("tank", unit_pos, NoSecondHex, <<>>, NoFlag),
                   UnitRecord("barge", unit_pos, <<0, 0>>, <<"c1">>, "True")} :
          units_by_id =
              [id \in {"u1", "b1"} |->
                  IF id = "u1" THEN u1
                  ELSE UnitRecord("attack_boat", <<1, 0>>, NoSecondHex, <<>>, "True")]

NextExecute ==
    \/ NewMoveCommandAnyUnit /\ UNCHANGED <<tideVars, playerVars, engineVars>>
    \/ EstimateApCost /\ UNCHANGED <<tideVars, playerVars, engineVars>>
    \/ Execute /\ UNCHANGED <<tideVars, playerVars, engineVars>>

SpecExecute == InitExecute /\ [][NextExecute]_vars

\* tide effects on two units, each an attack boat or a tank, standing on a
\* hex of a plain board with at most one swamp or reef hex or parked off the
\* board in the freighter, with or without a flag set beforehand
UnitIds == {"b1", "u1"}

UnitAt(type, pos, flag) ==
    [unit_type_id |-> type, player_id |-> "P1", pos |-> pos, cargo |-> <<>>,
     is_in_freighter |-> (pos = OffBoard), is_neutralised |-> flag]

InitEffects ==
    /\ TideIdle /\ PlayerInit /\ EngineIdle
    /\ \E odd \in {{}} \cup {{h} : h \in Rectangle(EffectCols, EffectRows)},
          t \in {"swamp", "reef"} :
          hexes = [c \in Rectangle(EffectCols, EffectRows) |->
                      IF c \in odd THEN t ELSE "plain"]
    /\ tide_state \in {"low", "mid", "high"}
    /\ can_enter = {}
    /\ units_by_id \in [UnitIds ->
          {UnitAt(type, pos, flag) :
              type \in {"attack_boat", "tank"},
              pos \in Rectangle(EffectCols, EffectRows) \cup {OffBoard},
              flag \in Flags}]
    /\ unit_pos = <<0, 0>>
    /\ cmd_dest = <<0, 0>>
    /\ cached_path = NoPath
    /\ cached_path_state_tuple = NoKey
    /\ available_ap = 0
    /\ cmd_unit_id = "u1"
    /\ CallIdle

NextEffects == ApplyTideEffects /\ UNCHANGED <<tideVars, playerVars, engineVars>>

SpecEffects == InitEffects /\ [][NextEffects]_vars

\* a TurnManager alone: advance_turn called again and again, past the last
\* registered number
InitTurn ==
    /\ TurnManagerInit
    /\ TideIdle /\ PlayerInit /\ BoardIdle /\ CallIdle /\ MoveIdle

NextTurn ==
    AdvanceTurn /\ UNCHANGED <<tideVars, playerVars, boardVars, moveVars, units_by_id>>

SpecTurn == InitTurn /\ [][NextTurn]_vars

\* the engine's game loop over a TurnManager and a TideDeck of the default
\* turn configuration with at most one reshuffle turn
InitEngine ==
    /\ TurnManagerInit
    /\ TideInit /\ Cardinality(reshuffle_turns) <= 1
    /\ PlayerInit /\ BoardIdle /\ CallIdle /\ MoveIdle

NextEngine ==
    PlayGameTurn /\ UNCHANGED <<playerVars, boardVars, callVars, moveVars, units_by_id>>

SpecEngine == InitEngine /\ [][NextEngine]_vars

\* the landing phase of turn 1 on a plain board of four rows with MaxRegions
\* landing regions side by side: region k has two hexes of its zone, the hex
\* (3k-1, 1) in the second row and the edge hex (3k-1, 0) above it; the
\* hexes of the two upper rows carry ore; the hex below the first region is
\* plain or sea
MaxRegions == 6

MaxPlayers == 3

LandingCells == (0..(3 * MaxRegions + 1)) \X (0..3)

RegionOf(c) == IF c[2] <= 1 /\ c[1] % 3 = 2 THEN (c[1] + 1) \div 3 ELSE 0

\* zone ids of the regions: six zones that are no neighbours of each other
\* and together forbid every zone (further regions belong to no zone)
ZonesApart == <<"2", "5", "8", "11", "13", "14">>

\* zone ids of the regions: some zones are neighbours of each other
ZonesTouching == <<"1", "2", "12", "13", "3", "7", "9", "14", "5", "11", "4", "6">>

\* the boards of the landing phase: regions apart with one player more than
\* the six landings that forbid all fourteen zones, MaxPlayers players on
\* touching regions with one or two usable pod shapes, and a game without
\* pod shapes of the starfreighter
LandingSetups ==
    { [labels |-> ZonesApart, shapes |-> << <<2, 3, 4>>, <<0, 120, 240>> >>,
       below |-> "plain", seats |-> Len(ZonesApart) + 1] }
    \cup { [labels |-> ZonesTouching, shapes |-> s, below |-> t, seats |-> MaxPlayers] :
              s \in { << <<2, 3, 4>>, <<0, 120, 240>> >>, << <<2, 3, 4>>, <<3, 4, 5>> >> },
              t \in {"plain", "sea"} }
    \cup { [labels |-> ZonesTouching, shapes |-> <<>>, below |-> "plain", seats |-> MaxPlayers] }

PlayerIds == <<"p1", "p2", "p3", "p4", "p5", "p6", "p7", "p8", "p9">>

InitLanding ==
    /\ TideIdle /\ PlayerInit /\ CallIdle /\ MoveIdle
    /\ turn_definitions = [n \in 1..2 |-> MaxBaseAP]
    /\ current_turn_number = 1
    /\ game_over = FALSE
    /\ turn_steps = <<"advance_turn", "advance_turn_tide", "_handle_turn_1_arrival">>
    /\ tide_state = "mid"
    /\ can_enter = {}
    /\ hex_ore = [c \in LandingCells |-> c[2] <= 1]
    /\ \E setup \in LandingSetups :
          /\ hexes = [c \in LandingCells |-> IF c = <<2, 2>> THEN setup.below ELSE "plain"]
          /\ hex_zone = [c \in LandingCells |->
                            IF RegionOf(c) \in DOMAIN setup.labels
                            THEN setup.labels[RegionOf(c)] ELSE NoZone]
          /\ pod_shapes = setup.shapes
          /\ players = [i \in 1..setup.seats |-> PlayerIds[i]]
    /\ landing_index = 0
    /\ freighter_landings = <<>>
    /\ landed_freighter_zones = {}
    /\ freighter_landed = {}
    /\ landing_log = <<>>
    /\ deployment_index = 0
    /\ units_on_board = [p \in Range(players) |-> <<>>]
    /\ units_in_freighter = [p \in Range(players) |-> <<>>]

NextLanding ==
    \/ LandPlayer /\ UNCHANGED <<tideVars, playerVars, boardVars, callVars, moveVars, units_by_id>>
    \/ ArrivalWithoutPodShapes /\ UNCHANGED <<tideVars, playerVars, boardVars, callVars, moveVars, units_by_id>>

SpecLanding == InitLanding /\ [][NextLanding]_vars

\* initial_units of _handle_turn_2_deployment, one entry per unit, in the
\* order of the dict
initial_unit_pool ==
    <<"barge", "crab", "weather_hen", "gunboat", "gunboat",
      "tank", "tank", "tank", "tank", "heap", "pontoon">>

\* a Unit as _handle_turn_2_deployment constructs it
DeployedUnit(type, player, pos, second, in_freighter) ==
    [unit_type_id |-> type, player_id |-> player, pos |-> pos,
     second_hex |-> second, is_in_freighter |-> in_freighter]

\* the second hexes a barge with its primary hex at h can get: a neighbour
\* that is no edge hex and not occupied, of sea or of a terrain the unit can
\* enter in the zone of h
BargeSecondHexes(h, occupied) ==
    {n \in Range(get_neighbors(hexes, h)) :
        /\ ~is_edge_hex(hexes, n)
        /\ n \notin occupied
        /\ \/ hexes[n] = "sea"
           \/ hexes[n] \in can_enter /\ hex_zone[n] = hex_zone[h]}

\* the <<hex, second hex>> placements the loop over the shuffled zone hexes
\* can stop at for a unit of the type (every unit type has the terrain set
\* can_enter)
DeployChoices(type, zone_hexes, occupied) ==
    {ch \in zone_hexes \X (DOMAIN hexes \cup {NoSecondHex}) :
        /\ ch[1] \notin occupied
        /\ hexes[ch[1]] \in can_enter
        /\ type \in {"barge", "gunboat"} =>
              \E n \in Range(get_neighbors(hexes, ch[1])) : hexes[n] = "sea"
        /\ IF type = "barge"
           THEN /\ ~is_edge_hex(hexes, ch[1])
                /\ ch[2] \in BargeSecondHexes(ch[1], occupied)
           ELSE ch[2] = NoSecondHex}

\* the <<units_on_board, units_in_freighter>> additions the deployment of
\* the pool can end with for a player whose freighter has the bubble given
RECURSIVE DeployOutcomes(_, _, _, _, _, _, _)
DeployOutcomes(player, bubble, zone_hexes, pool, occupied, on_board, in_freighter) ==
    IF pool = <<>> THEN {<<on_board, in_freighter>>}
    ELSE LET type    == Head(pool)
             choices == DeployChoices(type, zone_hexes, occupied)
         IN  IF choices = {}
             THEN DeployOutcomes(player, bubble, zone_hexes, Tail(pool), occupied,
                      on_board,
                      Append(in_freighter,
                             DeployedUnit(type, player, bubble, NoSecondHex, TRUE)))
             ELSE UNION {DeployOutcomes(player, bubble, zone_hexes, Tail(pool),
                             occupied \cup {ch[1]}
                                 \cup (IF ch[2] = NoSecondHex THEN {} ELSE {ch[2]}),
                             Append(on_board,
                                    DeployedUnit(type, player, ch[1], ch[2], FALSE)),
                             in_freighter) : ch \in choices}

\* one pass of the loop over the players in _handle_turn_2_deployment, which
\* runs after the landings of turn 1: a player without a landing is passed
\* over, every unit of the pool of the others is put on a hex of the zone or
\* kept in the freighter
DeployPlayer ==
    /\ landing_index = Len(players)
    /\ deployment_index < Len(players)
    /\ deployment_index' = deployment_index + 1
    /\ LET player == players[deployment_index + 1]
       IN  IF player \notin DOMAIN freighter_landings
           THEN UNCHANGED <<units_on_board, units_in_freighter>>
           ELSE LET landing == freighter_landings[player]
                IN  \E out \in DeployOutcomes(player, landing.occupied_hexes[1],
                                   get_hexes_in_zone(landing.zone_id),
                                   initial_unit_pool,
                                   Range(landing.occupied_hexes), <<>>, <<>>) :
                       /\ units_on_board' =
                             [units_on_board EXCEPT ![player] = @ \o out[1]]
                       /\ units_in_freighter' =
                             [units_in_freighter EXCEPT ![player] = @ \o out[2]]
    /\ UNCHANGED <<hex_zone, hex_ore, pod_shapes, players, landing_index,
                   freighter_landings, landed_freighter_zones, freighter_landed,
                   landing_log>>
    /\ UNCHANGED <<turn_definitions, current_turn_number, game_over, turn_steps>>

\* a board of two landing regions for landing, deployment, movement and tide
\* effects together: the first region has the zone hexes (2, 0) and (2, 1),
\* the second (5, 0), (5, 1) and (4, 2) next to the sea hex (3, 2); there is
\* a swamp hex at (7, 2) and ore on the two upper rows
GroundCells == (0..7) \X (0..3)

GroundTerrain(c) ==
    IF c = <<3, 2>> THEN "sea" ELSE IF c = <<7, 2>> THEN "swamp" ELSE "plain"

GroundZone(c, z1, z2) ==
    IF c \in {<<2, 0>>, <<2, 1>>} THEN z1
    ELSE IF c \in {<<5, 0>>, <<5, 1>>, <<4, 2>>} THEN z2
    ELSE NoZone

InitGround ==
    /\ TideIdle /\ PlayerInit /\ CallIdle
    /\ turn_definitions = [n \in 1..2 |-> MaxBaseAP]
    /\ current_turn_number = 1
    /\ game_over = FALSE
    /\ turn_steps = <<"advance_turn", "advance_turn_tide", "_handle_turn_1_arrival">>
    /\ hexes = [c \in GroundCells |-> GroundTerrain(c)]
    /\ tide_state \in {"low", "high"}
    /\ can_enter \in {{"plain"}, {"plain", "swamp"}}
    /\ \E z \in {<<"1", "2">>, <<"13", "3">>} :
          hex_zone = [c \in GroundCells |-> GroundZone(c, z[1], z[2])]
    /\ hex_ore = [c \in GroundCells |-> c[2] <= 1]
    /\ pod_shapes = << <<2, 3, 4>>, <<3, 4, 5>> >>
    /\ players = [i \in 1..(MaxPlayers - 1) |-> PlayerIds[i]]
    /\ landing_index = 0
    /\ freighter_landings = <<>>
    /\ landed_freighter_zones = {}
    /\ freighter_landed = {}
    /\ landing_log = <<>>
    /\ deployment_index = 0
    /\ units_on_board = [p \in Range(players) |-> <<>>]
    /\ units_in_freighter = [p \in Range(players) |-> <<>>]
    /\ unit_pos = <<7, 1>>
    /\ cmd_dest \in {<<7, 2>>, <<3, 2>>}
    /\ cached_path = NoPath
    /\ cached_path_state_tuple = NoKey
    /\ available_ap = 0
    /\ cmd_unit_id = "u1"
    /\ units_by_id = [id \in {"u1"} |->
                         UnitRecord("tank", unit_pos, NoSecondHex, <<>>, NoFlag)]

NextGround ==
    \/ LandPlayer /\ UNCHANGED <<tideVars, playerVars, boardVars, callVars, moveVars, units_by_id>>
    \/ DeployPlayer /\ UNCHANGED <<tideVars, playerVars, boardVars, callVars, moveVars, units_by_id>>
    \/ Execute /\ UNCHANGED <<tideVars, playerVars, engineVars>>
    \/ ApplyTideEffects /\ UNCHANGED <<tideVars, playerVars, engineVars>>

SpecGround == InitGround /\ [][NextGround]_vars

\* run_game is a loop of one thread: as long as the game is not over the
\* next _play_game_turn is called
SpecEngineFair == SpecEngine /\ WF_vars(NextEngine)

(***************************************************************************)
(* Claims about the tide deck (SpecTide).                                  *)
(***************************************************************************)
CurrentCardSet == IF current_tide_card = NoCard THEN {} ELSE {current_tide_card}

PileCards == Range(future_deck) \cup Range(reserve_pile) \cup Range(discard_pile)

AllCards == Range(all_cards_definitions)

C3_CurrentDisjoint ==
    tide_turn >= 1 =>
        /\ current_tide_card # NoCard =>
              /\ current_tide_card \in AllCards
              /\ current_tide_card \notin PileCards
        /\ NoDup(future_deck \o reserve_pile \o discard_pile)

C3_Witness ==
    /\ tide_turn \in reshuffle_turns
    /\ tide_turn > SetupDeckTurn
    /\ current_tide_card # NoCard
    /\ future_deck # <<>>
    /\ reserve_pile # <<>>
    /\ current_tide_card \notin PileCards

(***************************************************************************)
(* Claims about the AP ledger (SpecPlayer).                                *)
(***************************************************************************)
LedgerFields ==
    <<current_turn_base_ap, action_points_spent_this_turn, action_points_banked,
      banked_ap_at_start_of_actions, total_ap_for_spending_this_turn>>

\* C4: after prepare_for_new_turn(base) the spendable total is base + banked
\* and spent is 0; spend_ap(cost) returns false and changes no ledger field
\* exactly when spent + cost exceeds the spendable total, and otherwise
\* returns true and adds exactly cost to spent.
C4_SpendLaw ==
    [][ /\ player_op'[1] = "prepare_for_new_turn" =>
              /\ total_ap_for_spending_this_turn' = player_op'[2] + action_points_banked
              /\ action_points_banked' = action_points_banked
              /\ action_points_spent_this_turn' = 0
        /\ player_op'[1] = "spend_ap" =>
              LET cost == player_op'[2]
                  exceeds == action_points_spent_this_turn + cost
                                 > total_ap_for_spending_this_turn
              IN  /\ player_op'[3] = ~exceeds
                  /\ exceeds => LedgerFields' = LedgerFields
                  /\ ~exceeds =>
                        /\ action_points_spent_this_turn'
                               = action_points_spent_this_turn + cost
                        /\ current_turn_base_ap' = current_turn_base_ap
                        /\ action_points_banked' = action_points_banked
                        /\ total_ap_for_spending_this_turn'
                               = total_ap_for_spending_this_turn
      ]_vars

C4_Witness ==
    /\ player_op = <<"spend_ap", 12, FALSE>>
    /\ current_turn_base_ap = 10
    /\ banked_ap_at_start_of_actions = 0
    /\ total_ap_for_spending_this_turn = 10
    /\ action_points_spent_this_turn = 0

\* C5: end_turn_banking_ap sets the bank to 10 when unspent >= 10, to 5 when
\* unspent is 5..9 and to 0 otherwise, replacing the previous bank; the bank
\* is always one of 0, 5, 10.
C5_BankingStep ==
    /\ action_points_banked \in {0, 5, 10}
    /\ player_op[1] = "end_turn_banking_ap" =>
          LET unspent == total_ap_for_spending_this_turn
                             - action_points_spent_this_turn
          IN  /\ unspent >= 10 => action_points_banked = 10
              /\ (unspent >= 5 /\ unspent <= 9) => action_points_banked = 5
              /\ unspent <= 4 => action_points_banked = 0

C5_Witness ==
    /\ player_op[1] = "end_turn_banking_ap"
    /\ banked_ap_at_start_of_actions = 10
    /\ total_ap_for_spending_this_turn - action_points_spent_this_turn = 9
    /\ action_points_banked = 5

(***************************************************************************)
(* Claims about the coordinate system (SpecCoord).                         *)
(***************************************************************************)
\* C6: offset -> axial -> offset, axial -> offset -> axial and
\* axial -> cube -> axial give back the pair they started from, for negative
\* and odd columns too.
C6_RoundTrip ==
    call \in {"oddq_round_trip", "axial_round_trip", "cube_round_trip"} => ret = arg_a

C6_Witness ==
    /\ call = "oddq_round_trip"
    /\ arg_a = <<-3, -2>>
    /\ oddq_to_axial(arg_a[1], arg_a[2]) = <<-3, -1>>
    /\ ret = arg_a

\* C9: the heuristic is 0 exactly for equal coordinates, 1 exactly for a
\* coordinate one AXIAL_DIRECTIONS step away, and h(a, g) <= 1 + h(b, g) for
\* every direction neighbour b of a.
C9_HeuristicConsistent ==
    call = "heuristic" =>
        /\ (ret = 0) <=> (arg_a = arg_b)
        /\ (ret = 1) <=> (\E d \in 1..6 : DirectionCell(arg_a, d) = arg_b)
        /\ \A d \in 1..6 : ret <= 1 + heuristic(DirectionCell(arg_a, d), arg_b)

C9_Witness ==
    /\ call = "heuristic"
    /\ arg_a = <<-1, 2>>
    /\ arg_b = <<2, -3>>
    /\ ret = 6
    /\ \E d \in 1..6 : heuristic(DirectionCell(arg_a, d), arg_b) = ret - 1

(***************************************************************************)
(* Claims about the board queries (SpecBoard).                             *)
(***************************************************************************)
\* C7: for a hex h on the board get_neighbors(h) has at most 6 entries, all on
\* the board, none equal to h, none repeated, and n is a neighbour of h
\* exactly when h is a neighbour of n.
C7_NeighborsSymmetric ==
    (call = "get_neighbors" /\ arg_a \in DOMAIN hexes) =>
        /\ Len(ret) <= 6
        /\ \A i \in DOMAIN ret : ret[i] \in DOMAIN hexes /\ ret[i] # arg_a
        /\ NoDup(ret)
        /\ \A n \in DOMAIN hexes :
              (n \in Range(ret)) <=> (arg_a \in Range(get_neighbors(hexes, n)))

C7_Witness ==
    /\ call = "get_neighbors"
    /\ arg_a = <<-1, 0>>
    /\ <<-1, 1>> \notin DOMAIN hexes
    /\ Len(ret) = 5

\* C8: effective_terrain gives plain for swamp and reef at low tide, sea for
\* swamp and reef at high tide, and the stored terrain in every other case;
\* it is a function of (stored terrain, tide) and leaves the hex unchanged.
C8_EffectiveTerrain ==
    [][ call' = "effective_terrain" =>
          /\ hexes' = hexes
          /\ arg_a \in DOMAIN hexes =>
                LET stored == hexes[arg_a]
                IN  /\ (stored \in {"swamp", "reef"} /\ tide_state = "low")
                          => ret' = "plain"
                    /\ (stored \in {"swamp", "reef"} /\ tide_state = "high")
                          => ret' = "sea"
                    /\ (stored \notin {"swamp", "reef"}
                          \/ tide_state \notin {"low", "high"})
                          => ret' = stored
      ]_vars

C8_Witness ==
    /\ call = "effective_terrain"
    /\ arg_a \in DOMAIN hexes
    /\ hexes[arg_a] = "reef"
    /\ tide_state = "high"
    /\ ret = "sea"

(***************************************************************************)
(* Claims about the path search (SpecAStar).                               *)
(***************************************************************************)
Enterable(board, n, enter, tide) == effective_terrain(board[n], tide) \in enter

\* breadth-first reference: the least number of steps from start to goal
\* through enterable board hexes, -1 when there is no route
RECURSIVE BfsSteps(_, _, _, _, _, _, _)
BfsSteps(board, goal, enter, tide, frontier, seen, d) ==
    IF goal \in frontier THEN d
    ELSE LET next == {n \in UNION {Range(get_neighbors(board, c)) : c \in frontier} :
                         n \notin seen /\ Enterable(board, n, enter, tide)}
         IN  IF next = {} THEN -1
             ELSE BfsSteps(board, goal, enter, tide, next, seen \cup next, d + 1)

MinSteps(board, start, goal, enter, tide) ==
    BfsSteps(board, goal, enter, tide, {start}, {start}, 0)

\* C1: whenever a_star_pathfinding returns a path, its step count is the
\* minimum number of steps of any route from start to goal through enterable
\* hexes.
C1_PathOptimal ==
    (call = "a_star_pathfinding" /\ ret # NoPath) =>
        Len(ret) - 1 = MinSteps(hexes, arg_a, arg_b, can_enter, tide_state)

\* C13: a_star_pathfinding returns no path whenever the start or the goal is
\* not a hex of the board, also when start and goal are the same coordinate
\* off the board.
C13_OffBoardAbsent ==
    (call = "a_star_pathfinding"
        /\ (arg_a \notin DOMAIN hexes \/ arg_b \notin DOMAIN hexes)) =>
        ret = NoPath

\* C31: a_star_pathfinding returns on every board without raising, and it
\* returns no path only when no route leads from the start to the goal
\* through enterable board hexes.
C31_AbsentOnlyWithoutRoute ==
    call = "a_star_pathfinding" =>
        /\ raised = NoException
        /\ ret = NoPath =>
              MinSteps(hexes, arg_a, arg_b, can_enter, tide_state) = -1

C31_Witness ==
    /\ call = "a_star_pathfinding"
    /\ arg_a = <<0, 0>>
    /\ arg_b = <<1, 2>>
    /\ hexes[arg_b] = "mountain"
    /\ "plain" \in can_enter
    /\ "mountain" \notin can_enter
    /\ ret = NoPath

\* the board with the stored terrain of hex c replaced by t
WithTerrain(board, c, t) == [n \in DOMAIN board |-> IF n = c THEN t ELSE board[n]]

\* C14: a returned path starts at the start, ends at the goal, steps between
\* neighbouring hexes only, and every coordinate after the first is a hex the
\* unit can enter at the tide; the terrain of the start hex has no influence
\* on what is returned (the same search from a plain start hex returns the
\* same).
C14_PathWellFormed ==
    call = "a_star_pathfinding" =>
        /\ ret # NoPath =>
              /\ ret[1] = arg_a
              /\ ret[Len(ret)] = arg_b
              /\ \A i \in 1..(Len(ret) - 1) :
                    /\ ret[i + 1] \in Range(get_neighbors(hexes, ret[i]))
                    /\ Enterable(hexes, ret[i + 1], can_enter, tide_state)
        /\ (arg_a \in DOMAIN hexes /\ hexes[arg_a] # "plain") =>
              a_star_pathfinding(WithTerrain(hexes, arg_a, "plain"), arg_a, arg_b,
                                 can_enter, tide_state) = ret

C14_Witness ==
    /\ call = "a_star_pathfinding"
    /\ arg_a = <<1, 1>>
    /\ arg_b = <<2, 3>>
    /\ hexes[arg_a] = "mountain"
    /\ can_enter = {"plain"}
    /\ Len(ret) = 4

(***************************************************************************)
(* Claims about MoveCommand (SpecMove, SpecCommand).                       *)
(***************************************************************************)
IsRectangle(board) ==
    \E w \in 1..(MaxCols + 1), h \in 1..(MaxRows + 1) : DOMAIN board = Rectangle(w, h)

AllEnterable ==
    \A c \in DOMAIN hexes : Enterable(hexes, c, can_enter, tide_state)

\* C10: on a rectangular board whose every hex the unit can enter, for the
\* unit on the board and a destination on the board, the path has
\* hex-distance + 1 coordinates and estimate_ap_cost is the hex distance.
C10_OpenBoardCost ==
    ( /\ call = "estimate_ap_cost"
      /\ IsRectangle(hexes) /\ AllEnterable
      /\ unit_pos \in DOMAIN hexes /\ cmd_dest \in DOMAIN hexes ) =>
        /\ cached_path # NoPath
        /\ cached_path[1] = unit_pos
        /\ cached_path[Len(cached_path)] = cmd_dest
        /\ Len(cached_path) = heuristic(unit_pos, cmd_dest) + 1
        /\ ret = heuristic(unit_pos, cmd_dest)

C10_Witness ==
    /\ call = "estimate_ap_cost"
    /\ DOMAIN hexes = Rectangle(5, 5)
    /\ \A c \in DOMAIN hexes : hexes[c] = "plain"
    /\ unit_pos = <<0, 0>>
    /\ cmd_dest = <<0, 3>>
    /\ Len(cached_path) = 4
    /\ ret = 3

\* there is a route from the unit's position to the destination
Route == MinSteps(hexes, unit_pos, cmd_dest, can_enter, tide_state) # -1

\* C11: estimate_ap_cost returns the step count of the found path, 0 when the
\* unit stands on the destination and the effectively infinite cost when
\* there is no route, so that can_execute is false for every AP amount then;
\* neither call moves the unit.
C11_EstimateCost ==
    [][ call' \in {"estimate_ap_cost", "can_execute"} =>
          /\ unit_pos' = unit_pos
          /\ IF Route
             THEN /\ cached_path' # NoPath
                  /\ cached_path'[1] = unit_pos
                  /\ cached_path'[Len(cached_path')] = cmd_dest
                  /\ unit_pos = cmd_dest => Len(cached_path') = 1
                  /\ IF call' = "estimate_ap_cost"
                     THEN ret' = Len(cached_path') - 1
                     ELSE ret' = (available_ap' >= Len(cached_path') - 1)
             ELSE IF call' = "estimate_ap_cost"
                  THEN /\ ret' = Infinity
                       /\ \A ap \in 0..(MaxAvailableAP + 1) : ~can_execute(ap, ret')
                  ELSE ret' = FALSE
      ]_vars

C11_Witness ==
    /\ call = "can_execute"
    /\ unit_pos = <<0, 0>>
    /\ cmd_dest = <<2, 1>>
    /\ hexes[cmd_dest] = "swamp"
    /\ ~Route
    /\ available_ap = MaxAvailableAP
    /\ ret = FALSE

\* C12: execute puts the unit on the destination when there is a route and
\* leaves it where it is when there is none; executing the command again
\* leaves the unit on the destination.
C12_ExecuteMoves ==
    [][ call' = "execute" =>
          /\ IF Route THEN unit_pos' = cmd_dest ELSE unit_pos' = unit_pos
          /\ (call = "execute" /\ unit_pos = cmd_dest) => unit_pos' = cmd_dest
      ]_vars

C12_Witness ==
    /\ call = "execute"
    /\ \A c \in DOMAIN hexes : hexes[c] = "plain"
    /\ unit_pos = <<2, 1>>
    /\ cmd_dest = <<2, 1>>
    /\ Len(cached_path) = 3
    /\ cached_path[1] = <<0, 0>>

(***************************************************************************)
(* Claims about the tide effects (SpecEffects).                            *)
(***************************************************************************)
Boats == {u \in DOMAIN units_by_id : units_by_id[u].unit_type_id = "attack_boat"}

OnBoard(u) == units_by_id[u].pos \in DOMAIN hexes

\* the flag the swamp / high tide rule gives a unit
RuleFlag(u) ==
    IF OnBoard(u) /\ hexes[units_by_id[u].pos] = "swamp" /\ tide_state = "high"
    THEN "True" ELSE "False"

\* C15: after apply_tide_effects every attack boat on a board hex has its flag
\* equal to (stored terrain is swamp and tide is high), whatever it was
\* before; the stored terrain decides, not the effective one.
C15_BoatOnBoard ==
    call = "apply_tide_effects" =>
        \A u \in Boats : OnBoard(u) => units_by_id[u].is_neutralised = RuleFlag(u)

C15_Witness ==
    /\ call = "apply_tide_effects"
    /\ tide_state = "high"
    /\ units_by_id["b1"].unit_type_id = "attack_boat"
    /\ units_by_id["b1"].pos = <<0, 0>>
    /\ hexes[<<0, 0>>] = "swamp"
    /\ effective_terrain(hexes[<<0, 0>>], tide_state) = "sea"
    /\ units_by_id["b1"].is_neutralised = "True"

\* C16: after apply_tide_effects the flag of an attack boat is cleared in
\* every case other than (stored swamp hex, high tide), also for a boat whose
\* coordinate is no hex of the board and whose flag was set.
C16_BoatCleared ==
    call = "apply_tide_effects" =>
        \A u \in Boats :
            RuleFlag(u) = "False" => units_by_id[u].is_neutralised = "False"

\* C17: apply_tide_effects is idempotent (a second call in a row changes no
\* flag) and history-free (after a call the flag of every attack boat is
\* what the current tide and the boat's position give, whatever went before).
C17_IdempotentHistoryFree ==
    [][ call' = "apply_tide_effects" =>
          /\ [u \in DOMAIN units_by_id' |->
                 UnitAfterTideEffects(hexes', tide_state', units_by_id'[u])]
               = units_by_id'
          /\ call = "apply_tide_effects" => units_by_id' = units_by_id
          /\ \A u \in Boats :
                units_by_id'[u].is_neutralised = RuleFlag(u)
      ]_vars

\* a second call in a row changes no flag
IdempotentOnly ==
    [][ call' = "apply_tide_effects" =>
          /\ [u \in DOMAIN units_by_id' |->
                 UnitAfterTideEffects(hexes', tide_state', units_by_id'[u])]
               = units_by_id'
          /\ call = "apply_tide_effects" => units_by_id' = units_by_id
      ]_vars

\* C18: apply_tide_effects keeps the existing flag of every unit that is no
\* attack boat, and changes no unit's position, owner, cargo, type or
\* in-freighter mark, no hex terrain and not the tide.
C18_OthersUntouched ==
    [][ call' = "apply_tide_effects" =>
          /\ DOMAIN units_by_id' = DOMAIN units_by_id
          /\ \A u \in DOMAIN units_by_id :
                /\ (u \notin Boats /\ units_by_id[u].is_neutralised # NoFlag) =>
                      units_by_id'[u].is_neutralised = units_by_id[u].is_neutralised
                /\ [units_by_id'[u] EXCEPT !.is_neutralised = NoFlag]
                      = [units_by_id[u] EXCEPT !.is_neutralised = NoFlag]
          /\ hexes' = hexes
          /\ tide_state' = tide_state
      ]_vars

C18_Witness ==
    /\ call = "apply_tide_effects"
    /\ tide_state = "high"
    /\ units_by_id["u1"].unit_type_id = "tank"
    /\ units_by_id["u1"].pos = <<0, 0>>
    /\ hexes[<<0, 0>>] = "swamp"
    /\ units_by_id["u1"].is_neutralised = "False"
    /\ units_by_id["b1"].unit_type_id = "tank"
    /\ units_by_id["b1"].pos = <<1, 1>>
    /\ units_by_id["b1"].is_neutralised = "True"

(***************************************************************************)
(* Claims about the deck setup (SpecSetup) and the configured turns        *)
(* (SpecTideConfig).                                                       *)
(***************************************************************************)
\* C19: after setup_deck_for_play on a non-empty definition set future and
\* reserve together hold as many cards as there are definitions, share no
\* card, future holds min(configured size, number of definitions) cards and
\* the discard pile is empty.
C19_SetupSplit ==
    (call = "setup_deck_for_play" /\ all_cards_definitions # <<>>) =>
        /\ Len(future_deck) + Len(reserve_pile) = Len(all_cards_definitions)
        /\ Range(future_deck) \cap Range(reserve_pile) = {}
        /\ Len(future_deck) = Min(future_deck_size, Len(all_cards_definitions))
        /\ discard_pile = <<>>

C19_Witness ==
    /\ call = "setup_deck_for_play"
    /\ Len(all_cards_definitions) = 3
    /\ future_deck_size = 2
    /\ tide_turn = 5
    /\ current_tide_card # NoCard
    /\ Len(future_deck) = 2
    /\ Len(reserve_pile) = 1

\* C20: advance_turn_tide for a turn listed in fixed_turns does not make
\* future_deck shorter, whatever the setup turn, the reshuffle trigger turns
\* and the deck size are.
C20_FixedTurnKeepsFuture ==
    [][ (tide_turn' = tide_turn + 1 /\ tide_turn' \in DOMAIN fixed_turns) =>
            Len(future_deck') >= Len(future_deck)
      ]_vars

\* C21: the card that became current on a fixed turn is not moved to the
\* discard pile by the next advance_turn_tide (the pile is left as it is, or
\* cleared), whatever fixed_turns and last_fixed_turn are.
C21_FixedCardNotDiscarded ==
    [][ ( /\ tide_turn' = tide_turn + 1
          /\ tide_turn \in DOMAIN fixed_turns
          /\ current_tide_card # NoCard ) =>
            discard_pile' \in {discard_pile, <<>>}
      ]_vars

\* C22: a call of reshuffle on a deck with definitions leaves the current card
\* unchanged, empties the discard pile and makes future and reserve a split,
\* without a common or repeated card, of exactly the definitions other than
\* the current card, future holding min(configured size, number of cards
\* shuffled) cards; the current card is in neither pile.
C22_ReshuffleSplit ==
    [][ ( /\ call' = "reshuffle"
          /\ tide_turn' = tide_turn
          /\ all_cards_definitions # <<>> ) =>
            LET shuffled == AllCards \ CurrentCardSet
            IN  /\ current_tide_card' = current_tide_card
                /\ discard_pile' = <<>>
                /\ Range(future_deck') \cup Range(reserve_pile') = shuffled
                /\ Range(future_deck') \cap Range(reserve_pile') = {}
                /\ NoDup(future_deck' \o reserve_pile')
                /\ Len(future_deck') = Min(future_deck_size, Cardinality(shuffled))
                /\ current_tide_card' \notin
                       Range(future_deck') \cup Range(reserve_pile')
      ]_vars

C22_Witness ==
    /\ call = "reshuffle"
    /\ Len(all_cards_definitions) = 3
    /\ future_deck_size = 1
    /\ current_tide_card # NoCard
    /\ Len(future_deck) = 1
    /\ Len(reserve_pile) = 1
    /\ discard_pile = <<>>
    /\ tide_turn = 5

(***************************************************************************)
(* Claims about the draw and the refill (SpecTideDraw).                    *)
(***************************************************************************)
\* C23: after advance_turn_tide for a turn at or after the setup turn future
\* is empty only if reserve is empty; when the draw leaves future empty and
\* reserve is not, the front card of reserve, and only it, is moved to
\* future; a triggered reshuffle comes after the draw (the card just made
\* current is left out of the piles) and before the refill (a reshuffle into
\* an empty future is followed by the move of one card).
C23_RefillAfterDraw ==
    [][ (tide_turn' = tide_turn + 1 /\ tide_turn' >= setup_deck_turn) =>
          LET t        == tide_turn'
              setup    == t = setup_deck_turn /\ future_deck = <<>>
              resh     == t \in reshuffle_turns
              drawn_to == IF t \in DOMAIN fixed_turns
                          THEN future_deck
                          ELSE IF future_deck = <<>> THEN <<>> ELSE Tail(future_deck)
              shuffled == Cardinality(AllCards \ {current_tide_card'})
          IN  /\ future_deck' = <<>> => reserve_pile' = <<>>
              /\ (~setup /\ ~resh /\ drawn_to = <<>> /\ reserve_pile # <<>>) =>
                    /\ future_deck' = <<Head(reserve_pile)>>
                    /\ reserve_pile' = Tail(reserve_pile)
              /\ (~setup /\ ~resh /\ drawn_to # <<>>) =>
                    /\ future_deck' = drawn_to
                    /\ reserve_pile' = reserve_pile
              /\ (resh /\ all_cards_definitions # <<>>) =>
                    /\ current_tide_card' \notin
                          Range(future_deck') \cup Range(reserve_pile')
                    /\ discard_pile' = <<>>
                    /\ Len(future_deck') + Len(reserve_pile') = shuffled
                    /\ Len(future_deck') =
                          IF shuffled = 0 THEN 0
                          ELSE IF future_deck_size = 0 THEN 1
                          ELSE Min(future_deck_size, shuffled)
      ]_vars

C23_Witness ==
    /\ tide_turn > setup_deck_turn
    /\ tide_turn \notin reshuffle_turns
    /\ tide_turn \notin DOMAIN fixed_turns
    /\ future_deck_size = 0
    /\ current_tide_card # NoCard
    /\ Len(future_deck) = 1
    /\ reserve_pile # <<>>

\* C24 as stated: after a draw from the empty future deck on a non-fixed turn,
\* reserve being empty too, the next turn, if it is neither a reshuffle turn
\* nor a fixed turn, draws absent again and leaves both piles empty.
C24_EmptyDrawStaysEmpty ==
    [][ ( /\ tide_turn' = tide_turn + 1
          /\ tide_turn >= 1
          /\ tide_turn \notin DOMAIN fixed_turns
          /\ current_tide_card = NoCard
          /\ future_deck = <<>>
          /\ reserve_pile = <<>>
          /\ tide_turn' \notin reshuffle_turns
          /\ tide_turn' \notin DOMAIN fixed_turns ) =>
            /\ current_tide_card' = NoCard
            /\ future_deck' = <<>>
            /\ reserve_pile' = <<>>
      ]_vars

\* C24 amended: a non-fixed turn whose draw finds future empty (the call is
\* not the one that sets the deck up, or the setup leaves future empty) makes
\* the current card absent; the draw changes neither future nor reserve; and
\* from the setup turn on, with reserve empty too, a turn that is no
\* reshuffle turn leaves both piles empty and, if not fixed, draws absent.
C24_EmptyDrawFromSetup ==
    [][ tide_turn' = tide_turn + 1 =>
          LET t       == tide_turn'
              fixed   == t \in DOMAIN fixed_turns
              filling == /\ t = setup_deck_turn
                         /\ future_deck_size > 0
                         /\ all_cards_definitions # <<>>
          IN  /\ (~fixed /\ future_deck = <<>> /\ ~filling) =>
                    current_tide_card' = NoCard
              /\ (~fixed /\ future_deck = <<>> /\ t < setup_deck_turn) =>
                    /\ future_deck' = <<>>
                    /\ reserve_pile' = reserve_pile
              /\ ( /\ tide_turn >= setup_deck_turn
                   /\ future_deck = <<>>
                   /\ reserve_pile = <<>>
                   /\ t \notin reshuffle_turns ) =>
                    /\ future_deck' = <<>>
                    /\ reserve_pile' = <<>>
                    /\ ~fixed => current_tide_card' = NoCard
      ]_vars

C24_Witness ==
    /\ tide_turn > setup_deck_turn + 1
    /\ tide_turn \notin DOMAIN fixed_turns
    /\ (tide_turn - 1) \notin DOMAIN fixed_turns
    /\ Len(all_cards_definitions) = 2
    /\ current_tide_card = NoCard
    /\ future_deck = <<>>
    /\ reserve_pile = <<>>
    /\ Len(discard_pile) = 2

(***************************************************************************)
(* Claims about the turn manager (SpecTurn) and the engine (SpecEngine).   *)
(***************************************************************************)
\* C25: the turn counter starts at 0; every advance_turn call adds exactly 1
\* to it, a definition being registered for the new number or not, and
\* returns the definition registered for the new number, absent if there is
\* none; past the largest registered number every call returns absent.
C25_TurnCounter ==
    [][ call' = "advance_turn" =>
          /\ call = "none" => current_turn_number = 0
          /\ current_turn_number' = current_turn_number + 1
          /\ turn_definitions' = turn_definitions
          /\ current_turn_number' \in DOMAIN turn_definitions =>
                /\ ret' # NoTurn
                /\ ret'[1] = current_turn_number'
                /\ ret'[2] = turn_definitions[current_turn_number']
          /\ current_turn_number' \notin DOMAIN turn_definitions =>
                ret' = NoTurn
          /\ (\A n \in DOMAIN turn_definitions : n <= current_turn_number) =>
                ret' = NoTurn
      ]_vars

C25_Witness ==
    /\ call = "advance_turn"
    /\ current_turn_number = 2
    /\ DOMAIN turn_definitions = {1, 3}
    /\ ret = NoTurn

\* the phases a game turn can run
TurnPhases ==
    {"_handle_turn_1_arrival", "_handle_turn_2_deployment", "_handle_player_actions"}

\* the part of C26 the engine does keep: the turn phase comes after the turn
\* manager's advance and the tide deck's advance, in this order
EngineOrderWithoutEffects ==
    \A i \in DOMAIN turn_steps :
        turn_steps[i] \in TurnPhases =>
            /\ i = 3
            /\ turn_steps[1] = "advance_turn"
            /\ turn_steps[2] = "advance_turn_tide"
            /\ tide_turn = current_turn_number

\* C26: in every played game turn the turn phase is preceded, in this order,
\* by the turn manager's advance, the tide deck's advance and the
\* application of the tide effects to the units.
C26_TideAppliedBeforePhase ==
    \A i \in DOMAIN turn_steps :
        turn_steps[i] \in TurnPhases =>
            \E a, b, c \in 1..(i - 1) :
                /\ a < b /\ b < c
                /\ turn_steps[a] = "advance_turn"
                /\ turn_steps[b] = "advance_turn_tide"
                /\ turn_steps[c] = "apply_tide_effects"

(***************************************************************************)
(* Claims about the path cache (SpecCache) and the unit look-up            *)
(* (SpecLookup).                                                           *)
(***************************************************************************)
\* C27: whatever was written to the unit's position, the tide and the
\* command's destination between the calls, estimate_ap_cost and execute
\* use the path a fresh search returns for the state they are called in:
\* the cost and the unit's new position are those of the fresh path, and the
\* cache is left holding that path under the key of that state.
C27_CacheMatchesFreshSearch ==
    [][ call' \in {"estimate_ap_cost", "execute"} =>
          LET fresh == a_star_pathfinding(hexes, unit_pos, cmd_dest, can_enter,
                                          tide_state)
          IN  /\ cached_path' = fresh
              /\ cached_path_state_tuple' = StateTupleForCache
              /\ call' = "estimate_ap_cost" =>
                    ret' = (IF fresh = NoPath THEN Infinity ELSE Len(fresh) - 1)
              /\ call' = "execute" =>
                    unit_pos' = (IF fresh = NoPath THEN unit_pos
                                 ELSE fresh[Len(fresh)])
      ]_vars

\* the tide and the destination were written after the command was made,
\* and the estimate that followed found the swamp hex closed by the tide
C27_Witness ==
    /\ call = "estimate_ap_cost"
    /\ tide_state = "mid"
    /\ unit_pos = <<0, 0>>
    /\ cmd_dest = <<1, 0>>
    /\ hexes[<<1, 0>>] = "swamp"
    /\ cached_path = NoPath
    /\ cached_path_state_tuple = StateTupleForCache
    /\ ret = Infinity

\* C30: for a command whose unit id is not in the game state, get_unit,
\* estimate_ap_cost, can_execute and execute end with an AssertionError:
\* nothing is returned (no absent, no infinite cost) and the unit, the
\* command's cache, the board and the units are left as they were.
C30_MissingUnitAsserts ==
    [][ ( /\ call' \in {"get_unit", "estimate_ap_cost", "can_execute", "execute"}
          /\ cmd_unit_id \notin StateUnitIds ) =>
            /\ raised' = "AssertionError"
            /\ UNCHANGED <<ret, moveVars, boardVars, units_by_id>>
      ]_vars

C30_Witness ==
    /\ call = "execute"
    /\ raised = "AssertionError"
    /\ cmd_unit_id = MissingUnitId
    /\ cmd_dest # unit_pos
    /\ cmd_dest \in DOMAIN hexes
    /\ unit_pos \in DOMAIN hexes

(***************************************************************************)
(* Claims about the board edge (SpecEdge) and the freighter (SpecFreighter). *)
(***************************************************************************)
\* C28: is_edge_hex is true exactly when the coordinate is no hex of the
\* board or one of the six direction cells around it is none; for a hex of
\* the board it is false exactly when get_neighbors returns six hexes.
C28_EdgeHex ==
    call = "is_edge_hex" =>
        /\ ret <=> ( \/ arg_a \notin DOMAIN hexes
                     \/ \E d \in 1..6 : DirectionCell(arg_a, d) \notin DOMAIN hexes )
        /\ arg_a \in DOMAIN hexes =>
              (~ret <=> Len(get_neighbors(hexes, arg_a)) = 6)

C28_Witness ==
    /\ call = "is_edge_hex"
    /\ arg_a = <<0, 0>>
    /\ arg_a \in DOMAIN hexes
    /\ Len(get_neighbors(hexes, arg_a)) = 5
    /\ ret = TRUE

\* the values place_freighter takes for a pod
ValidPodEntries ==
    IF call = "place_freighter" THEN 0..5 ELSE {0, 60, 120, 180, 240, 300}

\* the part of C29 that holds: place_freighter of board.py skips an invalid
\* direction index and returns the bubble and one pod per valid index
BoardPyPlaceFreighterSoft ==
    call = "place_freighter" =>
        /\ raised = NoException
        /\ ret[1] = arg_a
        /\ Len(ret) = 1 + Cardinality({k \in DOMAIN arg_b : arg_b[k] \in 0..5})

\* C29: place_freighter, of board.py and of b_01.py, does not raise for an
\* entry that is none of the six valid values; it returns the bubble
\* coordinate followed by one pod coordinate per valid entry.
C29_PlaceFreighterSoft ==
    call \in {"place_freighter", "b_01.place_freighter"} =>
        /\ raised = NoException
        /\ ret[1] = arg_a
        /\ Len(ret) = 1 + Cardinality({k \in DOMAIN arg_b :
                                        arg_b[k] \in ValidPodEntries})

(***************************************************************************)
(* Claims about the deck without reshuffles (SpecTideDefault).             *)
(***************************************************************************)
\* one advance_turn_tide step of the draw schedule: on the turns 3 .. 2+N a
\* card that was never current before becomes current (after turn 3 the
\* front card of the future deck), the card of the turn before is appended
\* to discard, and from turn 3+N on no card is drawn
DrawSchedule ==
    LET t == tide_turn'
        N == Len(all_cards_definitions)
    IN  /\ t \in 3..(2 + N) =>
              /\ current_tide_card' # NoCard
              /\ current_tide_card' \notin Range(discard_pile')
              /\ Len(discard_pile') = t - 3
              /\ t > 3 => /\ future_deck # <<>>
                          /\ current_tide_card' = Head(future_deck)
        /\ t >= 4 =>
              discard_pile' = IF current_tide_card # NoCard
                              THEN Append(discard_pile, current_tide_card)
                              ELSE discard_pile
        /\ t >= 3 + N =>
              /\ current_tide_card' = NoCard
              /\ Len(discard_pile') = N

\* C32 as stated: with N card definitions, the default turns and no
\* reshuffle trigger, every card is the current card exactly once over the
\* turns 3 .. 3+N-1 (future deck in order, then one reserve card per turn),
\* each drawn card is in discard from the following turn on, and the draw at
\* turn 3+N yields no card.
C32_EveryCardOnce == [][DrawSchedule]_vars

\* C32 amended: the same for a configured future deck size of at least 1
\* (or an empty definition set).
C32_EveryCardOnceSized ==
    [][ (future_deck_size >= 1 \/ all_cards_definitions = <<>>) => DrawSchedule ]_vars

C32_Witness ==
    /\ Len(all_cards_definitions) = NumCards
    /\ future_deck_size = 1
    /\ tide_turn = 3 + NumCards
    /\ current_tide_card = NoCard
    /\ Len(discard_pile) = NumCards
    /\ NoDup(discard_pile)

(***************************************************************************)
(* Further claims about the AP ledger (SpecPlayer, SpecTurnCycle).         *)
(***************************************************************************)
\* C33: after any sequence of prepare_for_new_turn, spend_ap (non-negative
\* costs) and end_turn_banking_ap calls, 0 <= AP spent this turn <= the
\* spendable total of the turn <= the turn's base AP + 10.
C33_SpentWithinTotal ==
    /\ 0 <= action_points_spent_this_turn
    /\ action_points_spent_this_turn <= total_ap_for_spending_this_turn
    /\ total_ap_for_spending_this_turn <= current_turn_base_ap + MAX_BANKED_AP

C33_Witness ==
    /\ player_op[1] = "spend_ap"
    /\ player_op[3]
    /\ current_turn_base_ap = MaxBaseAP
    /\ total_ap_for_spending_this_turn = MaxBaseAP + MAX_BANKED_AP
    /\ action_points_spent_this_turn = total_ap_for_spending_this_turn

\* C34: banking creates no action points: over turn cycles of the form
\* prepare_for_new_turn(base), spend_ap calls, end_turn_banking_ap, starting
\* from bank 0, the bank after a turn is at most the turn's unspent AP, and
\* the AP spent through any turn never exceed the base AP granted through it.
C34_NoApCreated ==
    /\ player_op[1] = "end_turn_banking_ap" =>
          action_points_banked
              <= total_ap_for_spending_this_turn - action_points_spent_this_turn
    /\ cumulative_spent_ap <= cumulative_base_ap

C34_Witness ==
    /\ player_op[1] = "end_turn_banking_ap"
    /\ turn_cycles = 2
    /\ banked_ap_at_start_of_actions = MAX_BANKED_AP
    /\ cumulative_base_ap = 2 * MaxBaseAP
    /\ cumulative_spent_ap = cumulative_base_ap
    /\ action_points_banked = 0

(***************************************************************************)
(* Claims about the game loop (SpecEngineFair).                            *)
(***************************************************************************)
\* the first turn number without a definition
FirstAbsentTurn ==
    CHOOSE n \in 1..(MaxTurnNumber + 1) :
        /\ n \notin DOMAIN turn_definitions
        /\ \A m \in 1..(n - 1) : m \in DOMAIN turn_definitions

CubeDistance(a, b) ==
    LET ca == axial_to_cube(a[1], a[2])
        cb == axial_to_cube(b[1], b[2])
    IN  (Abs(ca[1] - cb[1]) + Abs(ca[2] - cb[2]) + Abs(ca[3] - cb[3])) \div 2

\* the pods of the freighter returned last are at distance 1 from the bubble
\* under the distance given, and distinct valid entries gave distinct pods
PodsAroundBubble(Distance(_, _)) ==
    /\ \A k \in 2..Len(ret) : Distance(ret[1], ret[k]) = 1
    /\ (\A k \in DOMAIN arg_b : arg_b[k] \in ValidPodEntries) =>
          \A i, j \in DOMAIN arg_b :
              arg_b[i] # arg_b[j] => ret[i + 1] # ret[j + 1]

\* the part of C38 that holds: the index-based place_freighter of board.py
BoardPyPodsAdjacent ==
    (call = "place_freighter" /\ raised = NoException) => PodsAroundBubble(heuristic)

\* C38: every pod coordinate place_freighter returns is one of the six hexes
\* adjacent to the bubble (hex distance 1 under the module's own coordinate
\* conversion), in even and in odd columns, and distinct valid entries give
\* distinct pods, for board.py and for b_01.py.
C38_PodsAdjacent ==
    /\ (call = "place_freighter" /\ raised = NoException) =>
          PodsAroundBubble(heuristic)
    /\ (call = "b_01.place_freighter" /\ raised = NoException) =>
          PodsAroundBubble(CubeDistance)

(***************************************************************************)
(* Claims about what execute writes (SpecExecute).                         *)
(***************************************************************************)
\* the fields of a unit record other than its position
UnitRest(u) ==
    <<u.unit_type_id, u.player_id, u.second_hex, u.cargo, u.is_in_freighter,
      u.is_neutralised>>

\* C39: MoveCommand.execute changes nothing in the game state but the col and
\* row of the moved unit: the players' AP, the tide, the turn number, the
\* board and every other unit are unchanged, and the moved unit keeps its
\* second hex, cargo, neutralised and in-freighter flags when it is relocated.
C39_ExecuteWritesPositionOnly ==
    [][ call' = "execute" =>
          /\ playerVars' = playerVars
          /\ tideVars' = tideVars
          /\ engineVars' = engineVars
          /\ boardVars' = boardVars
          /\ DOMAIN units_by_id' = DOMAIN units_by_id
          /\ \A id \in DOMAIN units_by_id :
                /\ UnitRest(units_by_id'[id]) = UnitRest(units_by_id[id])
                /\ id # cmd_unit_id => units_by_id'[id] = units_by_id[id]
          /\ cmd_unit_id \in DOMAIN units_by_id =>
                units_by_id'[cmd_unit_id].pos = unit_pos'
          /\ cmd_unit_id \notin DOMAIN units_by_id => unit_pos' = unit_pos
      ]_vars

C39_Witness ==
    /\ call = "execute"
    /\ raised = NoException
    /\ Len(cached_path) >= 3
    /\ unit_pos = cmd_dest
    /\ units_by_id["u1"].pos = cmd_dest
    /\ units_by_id["u1"].second_hex = <<0, 0>>
    /\ units_by_id["u1"].cargo = <<"c1">>
    /\ units_by_id["u1"].is_neutralised = "True"
    /\ units_by_id["b1"].pos = <<1, 0>>
    /\ action_points_banked = 5

(***************************************************************************)
(* Claims about the freighter landings (SpecLanding).                      *)
(***************************************************************************)
\* zones a and b of the mainland ring 1 .. 12 are next to each other
RingNeighbours(a, b) ==
    /\ ZoneInt(a) <= 12
    /\ ZoneInt(b) <= 12
    /\ (ZoneInt(a) - ZoneInt(b)) % 12 \in {1, 11}

\* C36: after any number of turn-1 landings no two landed freighters are in
\* the same zone or in neighbouring mainland zones of the ring 1 .. 12 (12
\* neighbours 1, the islands 13 and 14 neighbour none); a zone is recorded as
\* landed and a player's freighter_landed flag is set only with an accepted
\* footprint, and a player with no available zone or no valid footprint stays
\* un-landed.
C36_LandingsApart ==
    /\ \A p, q \in DOMAIN freighter_landings :
          p # q => /\ freighter_landings[p].zone_id # freighter_landings[q].zone_id
                   /\ ~RingNeighbours(freighter_landings[p].zone_id,
                                      freighter_landings[q].zone_id)
    /\ landed_freighter_zones =
          {freighter_landings[p].zone_id : p \in DOMAIN freighter_landings}
    /\ freighter_landed = DOMAIN freighter_landings
    /\ \A p \in DOMAIN freighter_landings :
          LET cells == freighter_landings[p].occupied_hexes
          IN  /\ Len(cells) = 4
              /\ hex_zone[cells[1]] = freighter_landings[p].zone_id
              /\ \A q \in DOMAIN freighter_landings \ {p} :
                    Range(cells) \cap Range(freighter_landings[q].occupied_hexes) = {}
    /\ (landing_log # <<>> /\ landing_log[2] = "landed") =>
          \A k \in DOMAIN freighter_landings[landing_log[1]].occupied_hexes :
             LET c == freighter_landings[landing_log[1]].occupied_hexes[k]
             IN  /\ get_hex(hexes, c) \in {"plain", "swamp"}
                 /\ ~is_edge_hex(hexes, c)
    /\ (landing_log # <<>> /\ landing_log[2] # "landed") =>
          landing_log[1] \notin freighter_landed

C36_Witness ==
    /\ landing_log = <<"p7", "no_zone">>
    /\ Cardinality(freighter_landed) = 6
    /\ "p7" \notin freighter_landed
    /\ {"13", "14"} \subseteq landed_freighter_zones

(***************************************************************************)
(* Claims about what changes the hexes (SpecGround).                       *)
(***************************************************************************)
\* the step is a landing: the landing loop has passed a player who landed
LandingStep ==
    /\ landing_index' = landing_index + 1
    /\ landing_log'[2] = "landed"

\* C37: hexes are mutated only by the ore-clearing of a freighter landing:
\* when a player lands in zone Z every hex of Z has ore false afterwards and
\* the ore flags of the hexes outside Z are as before, no ore flag ever goes
\* from false to true, and no step of landing, deployment, movement or tide
\* effects adds or removes a hex or changes a terrain (or a zone id).
C37_HexesMutatedOnlyByOreClearing ==
    [][ /\ hexes' = hexes
        /\ hex_zone' = hex_zone
        /\ DOMAIN hex_ore' = DOMAIN hexes
        /\ \A c \in DOMAIN hex_ore : hex_ore'[c] => hex_ore[c]
        /\ IF LandingStep
           THEN LET Z == freighter_landings'[landing_log'[1]].zone_id
                IN  \A c \in DOMAIN hex_ore :
                       hex_ore'[c] = (IF hex_zone[c] = Z THEN FALSE ELSE hex_ore[c])
           ELSE hex_ore' = hex_ore ]_vars

C37_Witness ==
    /\ landing_log # <<>>
    /\ landing_log[2] = "landed"
    /\ LET Z == freighter_landings[landing_log[1]].zone_id
       IN  /\ \A c \in DOMAIN hex_ore : hex_zone[c] = Z => ~hex_ore[c]
           /\ \E c \in DOMAIN hex_ore : hex_zone[c] \notin {Z, NoZone} /\ hex_ore[c]
           /\ \E c \in DOMAIN hex_ore : hex_zone[c] = NoZone /\ hex_ore[c]
    /\ \E p \in DOMAIN units_on_board : units_on_board[p] # <<>>
    /\ units_by_id["u1"].pos = <<7, 2>>
    /\ units_by_id["u1"].is_neutralised # NoFlag

====
